---- MODULE Spec2Model ----
(***************************************************************************)
(* Document ingestion pipeline of eleva: the background coordinator        *)
(* (process_document_background), the embedding orchestrator               *)
(* (EmbeddingService.embed_document_chunks) and the provider adapter       *)
(* (OpenAIClient).                                                         *)
(*                                                                         *)
(* A document is seen twice: the attributes of the session's Document      *)
(* object as the code last assigned them (status, error, started,          *)
(* completed) and the committed row (dstatus, derror, dcompleted).         *)
(* Embedding rows are seen twice as well: the session's view (rows, ...)  *)
(* and the committed view (drows, ...).  A commit that succeeds copies    *)
(* the session's view to the committed one; a commit that fails raises and *)
(* rolls the pending rows back.                                            *)
(***************************************************************************)
EXTENDS Integers, Sequences, FiniteSets, TLC

\* ---------------------------------------------------------------- bounds
MaxChunks == 3          \* chunks a pipeline run creates: 1..MaxChunks
MaxBatchSize == 2       \* batch_size argument of embed_document_chunks: 1..MaxBatchSize
MaxCalls == 2           \* embed_document_chunks calls on one document
MaxBackoffChunks == 7   \* chunks of the single-chunk-batch run of SpecBackoff
MaxTexts == 3           \* texts of one get_embeddings_batch call: 0..MaxTexts
MaxBatchArg == 2        \* small batch_size arguments of get_embeddings_batch
MaxQuizCallers == 1     \* concurrent QuizExplanationService.explain_answer calls
\* max_concurrent_requests, the constructor argument of OpenAIClient (10 in the
\* program, for the embedding service's client and for the quiz clients alike)
MaxConcurrentRequests == 2
MaxStored == 4          \* chunk rows in the database when top_chunks searches
MaxLimit == 2           \* limit argument of top_chunks: 0..MaxLimit
MaxDocChunks == 2       \* chunks of each of the two documents embedded together
MaxUnits == 3           \* words and sentences a chunked text is put together from
MaxPages == 2           \* pages of a parsed PDF: 0..MaxPages
MaxLetters == 11        \* letters of a parsed text file: 0..MaxLetters
MaxTasks == 2           \* task ids given to TaskQueue.enqueue: 1..MaxTasks
MaxCoroutines == 3      \* calls of TaskQueue.enqueue that create a _run_task coroutine

ChunkIdBound == IF MaxBackoffChunks > MaxChunks THEN MaxBackoffChunks ELSE MaxChunks
ChunkIds == 1..ChunkIdBound

\* ---------------------------------------------------------------- values
\* ProcessingStatus members
PENDING == "pending"
PARSING == "parsing"
CHUNKING == "chunking"
EMBEDDING == "embedding"
COMPLETED == "completed"
FAILED == "failed"
ProcessingStatus == {PENDING, PARSING, CHUNKING, EMBEDDING, COMPLETED, FAILED}

\* Messages are pairs <<text, number>>.
NoMsg == <<"", 0>>
ParserMsg == <<"DocumentParsingError", 0>>
DbMsg == <<"commit failed", 0>>
MetadataMsg == <<"TypeError", 0>>
ChunkerMsg == <<"ValueError", 0>>
\* f"Failed to embed {len(failed_chunks)} chunks"
FailedNote(n) == <<"Failed to embed chunks", n>>
\* f"Failed to generate embeddings for document {document.id}: {str(e)}"
WrapMsg(m) == <<"Failed to generate embeddings: " \o m[1], m[2]>>

\* Exceptions are records of a type and a message; str(e) is the message.
NoExc == [type |-> "none", msg |-> NoMsg]
DbError == [type |-> "DBAPIError", msg |-> DbMsg]
MetadataError == [type |-> "TypeError", msg |-> MetadataMsg]
ChunkerError == [type |-> "ValueError", msg |-> ChunkerMsg]
EmbeddingServiceError(e) == [type |-> "EmbeddingServiceError", msg |-> WrapMsg(e.msg)]
StrOf(e) == e.msg

NoSummary ==
    [total_chunks |-> 0, processed_chunks |-> 0, failed_chunks |-> 0,
     failed_chunk_ids |-> << >>, success |-> FALSE]

VARIABLES
    faults,      \* what went wrong with the writes of the run so far: "commit" a commit
                 \* outside the batch loop raised, "get" the coordinator's handler could not
                 \* load the document, "handler" the handler's commit raised
    pc,          \* position of the coordinator / orchestrator
    mode,        \* "pipeline": embed called by the coordinator; "direct": called on its own
    exists,      \* document_crud.get finds the document
    status, error, started, completed,     \* Document object of the session
    dstatus, derror, dcompleted,           \* committed Document row
    nchunks,     \* committed DocumentChunk rows: ids 1..nchunks
    rows, wrote, inserted, \* session view: embedding rows per chunk, the chunks whose
                 \* row the running call wrote, those whose row it inserted
    drows, dwrote, dinserted, \* committed view of the same
    calls,       \* embed_document_chunks calls started so far
    bs,          \* batch_size of the running call
    i,           \* 0-based position of the next batch
    failed,      \* failed_chunks (list of chunk ids)
    processed,   \* processed_chunks
    submitted,   \* batch positions handed to the adapter in this call, in order
    slept,       \* <<batch position, seconds>> of every asyncio.sleep of this call
    adapterFailed, \* batch positions whose adapter call raised in this call
    otherFault,  \* a callback or commit failed inside a batch of this call
    okBatches,   \* batch positions stored and committed in this call
    exc,         \* the exception being handled
    raised,      \* how the last embed_document_chunks call ended
    summary,     \* the dictionary it returned
    parseFailed, \* parse_document raised in this run
    lastStep,    \* name of the step taken last
    \* ---- OpenAIClient
    texts,       \* get_embeddings_batch(texts)
    batchArg,    \* its batch_size argument
    task,        \* state of every _process_embedding_batch task
    taskResult,  \* what a finished task returned
    outOfOrder,  \* a task completed before a task created earlier
    semValue,    \* free slots of the _semaphore of the embedding service's client
    out,         \* outcome of get_embeddings_batch
    quiz,        \* position of every explain_answer call
    quizSem,     \* free slots of the _semaphore of each call's own OpenAIClient
    requests,    \* embeddings.create calls every task has issued
    failure,     \* the kind of exception that left a task
    qrequests,   \* embeddings.create calls of every get_embedding call
    qfailure,    \* the kind of exception that left a get_embedding call
    \* ---- DocumentRetrievalService.top_chunks
    rpc,         \* position of the top_chunks call
    rstatus,     \* document.processing_status
    query,       \* its query argument
    limit,       \* its limit argument
    store,       \* the chunk rows of the database when the search runs
    raw,         \* raw_results: (chunk id, distance) pairs
    chunks,      \* the RetrievedChunk list
    outcome,     \* how the call ended
    providerCalls, \* get_embedding_for_text calls issued
    searches,    \* search_similar_chunks calls issued
    \* ---- two documents embedded at the same time, each in its own session
    tpc,         \* position of each document's embed_document_chunks call
    ti,          \* 0-based position of its next batch
    tfailed,     \* its failed_chunks list
    tfaults,     \* the batch positions whose adapter call failed
    tstaged,     \* embedding rows pending in its session: (document, chunk)
    tembedded,   \* committed embedding rows of the table: (document, chunk)
    tstatus,     \* committed processing_status of each document
    tsummary,    \* what each call returned
    tslept,      \* the seconds each call has slept after rate limits
    \* ---- one call of the text chunker
    cpc,         \* "called" until the call has ended, then "ended"
    centry,      \* "strategy": a strategy object is built and used directly;
                 \* "chunker": TextChunker.chunk_text is called
    ctext,       \* the text argument
    cstrategy,   \* the strategy name
    csize,       \* the chunk_size argument (0 where the caller passes None)
    coverlap,    \* the chunk_overlap argument (0 is both 0 and None)
    crespect,    \* respect_word_boundaries of FixedSizeChunking
    cresult,     \* the outcome of the call and the chunk list it returned
    \* ---- one call of DocumentParser.parse_document
    xpc,         \* "called" until the call has ended, then "ended"
    xfile,       \* the file: its kind, and what its pages or its bytes hold
    xresult,     \* the outcome of the call and the text it returned
    \* ---- one TaskQueue
    tasks,       \* self.tasks: the status of each task id, Absent for an id not in it
    coroutines,  \* the _run_task coroutines created so far, each with its position
    cancelled,   \* ids for which cancel_task returned True since they were enqueued
    lastCall     \* the last call of the queue's interface and what it returned

pvars == <<faults, pc, mode, exists, status, error, started, completed, dstatus, derror,
           dcompleted, nchunks, rows, wrote, inserted, drows, dwrote, dinserted,
           calls, bs, i, failed,
           processed, submitted, slept, adapterFailed, otherFault, okBatches,
           exc, raised, summary, parseFailed, lastStep>>

avars == <<texts, batchArg, task, taskResult, outOfOrder, semValue, out, quiz, quizSem,
           requests, failure, qrequests, qfailure>>

rvars == <<rpc, rstatus, query, limit, store, raw, chunks, outcome, providerCalls,
           searches>>

tvars == <<tpc, ti, tfailed, tfaults, tstaged, tembedded, tstatus, tsummary, tslept>>

cvars == <<cpc, centry, ctext, cstrategy, csize, coverlap, crespect, cresult>>

xvars == <<xpc, xfile, xresult>>

qvars == <<tasks, coroutines, cancelled, lastCall>>

vars == <<pvars, avars, rvars, tvars, cvars, xvars, qvars>>

\* what the steps of one part leave alone
nonPipeline == <<avars, rvars, tvars, cvars, xvars, qvars>>
nonAdapter == <<pvars, rvars, tvars, cvars, xvars, qvars>>
nonRetrieval == <<pvars, avars, tvars, cvars, xvars, qvars>>
\* the two pipelines use the gate of the embedding service's client
gateVars == <<texts, batchArg, task, taskResult, outOfOrder, out, quiz, quizSem,
              requests, failure, qrequests, qfailure>>
nonTwoDocs == <<pvars, gateVars, rvars, cvars, xvars, qvars>>
nonChunker == <<pvars, avars, rvars, tvars, xvars, qvars>>
nonParser == <<pvars, avars, rvars, tvars, cvars, qvars>>
nonQueue == <<pvars, avars, rvars, tvars, cvars, xvars>>

\* ------------------------------------------------------------- helpers
Range(f) == {f[n] : n \in 1..Len(f)}
Min(a, b) == IF a < b THEN a ELSE b

RECURSIVE Pow2(_)
Pow2(n) == IF n = 0 THEN 1 ELSE 2 * Pow2(n - 1)

\* chunks[i:i + batch_size] for i = k * batch_size, as chunk ids (1-based)
BatchIds(k, size, total) == {c \in 1..total : (k * size) < c /\ c <= (k * size) + size}

\* [c.id for c in batch], in list order
RECURSIVE IdSeq(_, _)
IdSeq(lo, hi) == IF lo > hi THEN << >> ELSE <<lo>> \o IdSeq(lo + 1, hi)
BatchIdSeq(k, size, total) == IdSeq((k * size) + 1, Min((k * size) + size, total))

\* range(0, total_chunks, batch_size) has a batch at position k
HasBatch(k, size, total) == k * size < total

\* `status == ProcessingStatus.X.value`: ProcessingStatus is a plain enum.Enum,
\* whose members never compare equal to their string values.
MemberEqualsValue(member, value) == FALSE

\* the cap left out
WaitTimeUncapped(k) == Pow2(k)

\* wait_time = min(2 ** (i // batch_size), 60)
WaitTime(k) == Min(Pow2(k), 60)

\* _update_document_status: the attribute assignments, before the commit
UpdatedStarted(s) == IF MemberEqualsValue(s, EMBEDDING) THEN TRUE ELSE started
UpdatedCompleted(s) ==
    IF ~MemberEqualsValue(s, EMBEDDING)
       /\ (MemberEqualsValue(s, COMPLETED) \/ MemberEqualsValue(s, FAILED))
    THEN TRUE ELSE completed
UpdatedError(msg) == IF msg # NoMsg THEN msg ELSE error

\* db.add of a new row whether or not one exists
StoreRowsAlwaysAdds(ids) == [c \in ChunkIds |-> IF c \in ids THEN rows[c] + 1 ELSE rows[c]]

\* _store_embedding for every chunk of a batch: update the row found for the
\* chunk, add one when none is found
StoreRows(ids) == [c \in ChunkIds |-> IF c \in ids /\ rows[c] = 0 THEN 1 ELSE rows[c]]
StoreWrote(ids) == wrote \cup ids
StoreInserted(ids) == inserted \cup {c \in ids : rows[c] = 0}

\* unique=True on DocumentEmbedding.chunk_id: a flush with two rows for one
\* chunk is rejected
UniqueOk(r) == \A c \in ChunkIds : r[c] <= 1

\* db.commit() that succeeds: the session's view (document attributes s, e, c and
\* embedding rows r, v) becomes the committed view
Commit(s, e, c, r, w, n) ==
    /\ UniqueOk(r)
    /\ dstatus' = s /\ derror' = e /\ dcompleted' = c
    /\ drows' = r /\ dwrote' = w /\ dinserted' = n
    /\ rows' = r /\ wrote' = w /\ inserted' = n
\* db.commit() that raises: nothing is committed, pending rows are rolled back
Rollback ==
    /\ rows' = drows /\ wrote' = dwrote /\ inserted' = dinserted
    /\ UNCHANGED <<dstatus, derror, dcompleted, drows, dwrote, dinserted>>

callVars == <<bs, i, failed, processed, submitted, slept, adapterFailed, otherFault, okBatches>>
docVars == <<status, error, started, completed>>
ddocVars == <<dstatus, derror, dcompleted>>
rowVars == <<rows, wrote, inserted, drows, dwrote, dinserted>>

\* ------------------------------------------------------------- Init
PInit ==
    /\ pc = "start" /\ mode = "pipeline" /\ exists \in BOOLEAN
    /\ status = PENDING /\ error = NoMsg /\ started = FALSE /\ completed = FALSE
    /\ dstatus = PENDING /\ derror = NoMsg /\ dcompleted = FALSE
    /\ nchunks = 0
    /\ rows = [c \in ChunkIds |-> 0] /\ wrote = {} /\ inserted = {}
    /\ drows = [c \in ChunkIds |-> 0] /\ dwrote = {} /\ dinserted = {}
    /\ calls = 0 /\ bs = 1 /\ i = 0 /\ failed = << >> /\ processed = 0
    /\ submitted = << >> /\ slept = << >> /\ adapterFailed = {} /\ otherFault = FALSE
    /\ okBatches = {}
    /\ exc = NoExc /\ raised = "none" /\ summary = NoSummary
    /\ parseFailed = FALSE /\ lastStep = "init" /\ faults = {}

\* ------------------------------------------- process_document_background
\* document_crud.get returns None: log and return
GetNotFound ==
    /\ pc = "start" /\ ~exists
    /\ pc' = "done" /\ lastStep' = "GetNotFound"
    /\ UNCHANGED <<mode, exists, docVars, ddocVars, nchunks, rowVars, calls, callVars,
                   exc, raised, summary, parseFailed>>
    /\ UNCHANGED faults
    /\ UNCHANGED nonPipeline

\* status = PARSING, processing_started_at = now, commit
StartParsing ==
    /\ pc = "start" /\ exists
    /\ status' = PARSING /\ started' = TRUE /\ UNCHANGED <<error, completed>>
    /\ \/ Commit(PARSING, error, completed, rows, wrote, inserted) /\ UNCHANGED faults /\ UNCHANGED exc /\ pc' = "parse"
       \/ Rollback /\ faults' = faults \cup {"commit"} /\ exc' = DbError /\ pc' = "handler"
    /\ lastStep' = "StartParsing"
    /\ UNCHANGED <<mode, exists, nchunks, calls, callVars, raised, summary, parseFailed>>
    /\ UNCHANGED nonPipeline

\* parse_document returns; document.metadata = {...}; commit
ParseOk ==
    /\ pc = "parse"
    /\ \/ Commit(status, error, completed, rows, wrote, inserted) /\ UNCHANGED faults /\ UNCHANGED exc /\ pc' = "chunk"
       \/ UNCHANGED <<rowVars, ddocVars, faults>> /\ exc' = MetadataError /\ pc' = "handler"
       \/ Rollback /\ faults' = faults \cup {"commit"} /\ exc' = DbError /\ pc' = "handler"
    /\ lastStep' = "ParseOk"
    /\ UNCHANGED <<mode, exists, docVars, nchunks, calls, callVars, raised, summary,
                   parseFailed>>
    /\ UNCHANGED nonPipeline

\* the return after the FAILED commit left out
ParseFailNoReturn ==
    /\ pc = "parse"
    /\ status' = FAILED /\ error' = ParserMsg /\ completed' = TRUE /\ UNCHANGED started
    /\ parseFailed' = TRUE
    /\ \/ Commit(FAILED, ParserMsg, TRUE, rows, wrote, inserted) /\ UNCHANGED faults /\ UNCHANGED exc
          /\ pc' = "chunk"
       \/ Rollback /\ faults' = faults \cup {"commit"} /\ exc' = DbError /\ pc' = "handler"
    /\ lastStep' = "ParseFail"
    /\ UNCHANGED <<mode, exists, nchunks, calls, callVars, raised, summary>>
    /\ UNCHANGED nonPipeline

\* parse_document raises DocumentParsingError: FAILED, str(e), completed_at, commit, return
ParseFail ==
    /\ pc = "parse"
    /\ status' = FAILED /\ error' = ParserMsg /\ completed' = TRUE /\ UNCHANGED started
    /\ parseFailed' = TRUE
    /\ \/ Commit(FAILED, ParserMsg, TRUE, rows, wrote, inserted) /\ UNCHANGED faults /\ UNCHANGED exc /\ pc' = "done"
       \/ Rollback /\ faults' = faults \cup {"commit"} /\ exc' = DbError /\ pc' = "handler"
    /\ lastStep' = "ParseFail"
    /\ UNCHANGED <<mode, exists, nchunks, calls, callVars, raised, summary>>
    /\ UNCHANGED nonPipeline

\* the CHUNKING update left out
StartChunkingSkipped ==
    /\ pc = "chunk"
    /\ UNCHANGED docVars
    /\ \/ Commit(status, error, completed, rows, wrote, inserted) /\ UNCHANGED faults /\ UNCHANGED exc
          /\ pc' = "create"
       \/ Rollback /\ faults' = faults \cup {"commit"} /\ exc' = DbError /\ pc' = "handler"
    /\ lastStep' = "StartChunking"
    /\ UNCHANGED <<mode, exists, nchunks, calls, callVars, raised, summary, parseFailed>>
    /\ UNCHANGED nonPipeline

\* status = CHUNKING, commit
StartChunking ==
    /\ pc = "chunk"
    /\ status' = CHUNKING /\ UNCHANGED <<error, started, completed>>
    /\ \/ Commit(CHUNKING, error, completed, rows, wrote, inserted) /\ UNCHANGED faults /\ UNCHANGED exc /\ pc' = "create"
       \/ Rollback /\ faults' = faults \cup {"commit"} /\ exc' = DbError /\ pc' = "handler"
    /\ lastStep' = "StartChunking"
    /\ UNCHANGED <<mode, exists, nchunks, calls, callVars, raised, summary, parseFailed>>
    /\ UNCHANGED nonPipeline

\* text_chunker.chunk_text, document_chunk_crud.create_batch (its own commit)
CreateChunks ==
    /\ pc = "create"
    /\ \/ \E n \in 1..MaxChunks :
            /\ nchunks' = n
            /\ Commit(status, error, completed, rows, wrote, inserted) /\ UNCHANGED faults /\ UNCHANGED exc
            /\ pc' = "setemb"
       \/ UNCHANGED <<nchunks, rowVars, ddocVars, faults>> /\ exc' = ChunkerError /\ pc' = "handler"
       \/ Rollback /\ faults' = faults \cup {"commit"} /\ UNCHANGED nchunks /\ exc' = DbError /\ pc' = "handler"
    /\ lastStep' = "CreateChunks"
    /\ UNCHANGED <<mode, exists, docVars, calls, callVars, raised, summary, parseFailed>>
    /\ UNCHANGED nonPipeline

\* status = EMBEDDING, commit, then the call of embed_document_chunks
StartEmbedding ==
    /\ pc = "setemb"
    /\ status' = EMBEDDING /\ UNCHANGED <<error, started, completed>>
    /\ \/ Commit(EMBEDDING, error, completed, rows, wrote, inserted) /\ UNCHANGED faults /\ UNCHANGED exc /\ pc' = "e_init"
       \/ Rollback /\ faults' = faults \cup {"commit"} /\ exc' = DbError /\ pc' = "handler"
    /\ lastStep' = "StartEmbedding"
    /\ UNCHANGED <<mode, exists, nchunks, calls, callVars, raised, summary, parseFailed>>
    /\ UNCHANGED nonPipeline

\* lines 186-192: the summary is only logged
AfterEmbedMarksFailed ==
    /\ pc = "e_returned"
    /\ IF summary.success
       THEN UNCHANGED <<docVars, ddocVars, rowVars, faults>>
       ELSE /\ status' = FAILED /\ error' = error /\ completed' = TRUE /\ UNCHANGED started
            /\ Commit(FAILED, error, TRUE, rows, wrote, inserted) /\ UNCHANGED faults
    /\ pc' = "done" /\ lastStep' = "AfterEmbed"
    /\ UNCHANGED <<mode, exists, nchunks, calls, callVars, exc, raised, summary, parseFailed>>
    /\ UNCHANGED nonPipeline

AfterEmbed ==
    /\ pc = "e_returned"
    /\ pc' = "done" /\ lastStep' = "AfterEmbed"
    /\ UNCHANGED <<mode, exists, docVars, ddocVars, nchunks, rowVars, calls, callVars,
                   exc, raised, summary, parseFailed>>
    /\ UNCHANGED faults
    /\ UNCHANGED nonPipeline

\* the inner except left out: a failing commit leaves the coroutine
HandlerPropagates ==
    /\ pc = "handler"
    /\ \/ /\ status' = FAILED /\ error' = StrOf(exc) /\ completed' = TRUE
          /\ UNCHANGED started
          /\ \/ Commit(FAILED, StrOf(exc), TRUE, rows, wrote, inserted)
                /\ UNCHANGED faults /\ pc' = "done"
             \/ Rollback /\ faults' = faults \cup {"handler"} /\ pc' = "crashed"
       \/ UNCHANGED <<docVars, ddocVars, rowVars>> /\ faults' = faults \cup {"get"} /\ pc' = "crashed"
    /\ lastStep' = "Handler"
    /\ UNCHANGED <<mode, exists, nchunks, calls, callVars, exc, raised, summary, parseFailed>>
    /\ UNCHANGED nonPipeline

\* except Exception: get the document again, FAILED, str(e), completed_at, commit;
\* a failure in here is swallowed (except: pass)
Handler ==
    /\ pc = "handler"
    /\ \/ /\ status' = FAILED /\ error' = StrOf(exc) /\ completed' = TRUE
          /\ UNCHANGED started
          /\ \/ Commit(FAILED, StrOf(exc), TRUE, rows, wrote, inserted) /\ UNCHANGED faults
             \/ Rollback /\ faults' = faults \cup {"handler"}
       \/ UNCHANGED <<docVars, ddocVars, rowVars>> /\ faults' = faults \cup {"get"}
    /\ pc' = "done" /\ lastStep' = "Handler"
    /\ UNCHANGED <<mode, exists, nchunks, calls, callVars, exc, raised, summary, parseFailed>>
    /\ UNCHANGED nonPipeline

\* ------------------------------------ EmbeddingService.embed_document_chunks
\* after the call: the exception goes to the coordinator's handler, or to the
\* caller of a direct call
AfterRaise == IF mode = "pipeline" THEN "handler" ELSE "done"
AfterReturn == IF mode = "pipeline" THEN "e_returned" ELSE "done"

\* lines 148-157: the counters, then _update_document_status(EMBEDDING), which
\* is outside the try block
EmbedInit ==
    /\ pc = "e_init" /\ calls < MaxCalls
    /\ calls' = calls + 1
    /\ \E size \in 1..MaxBatchSize : bs' = size
    /\ i' = 0 /\ failed' = << >> /\ processed' = 0 /\ submitted' = << >> /\ slept' = << >>
    /\ adapterFailed' = {} /\ otherFault' = FALSE /\ okBatches' = {}
    /\ summary' = NoSummary
    /\ status' = EMBEDDING /\ started' = UpdatedStarted(EMBEDDING)
    /\ completed' = UpdatedCompleted(EMBEDDING) /\ error' = UpdatedError(NoMsg)
    /\ \/ /\ Commit(EMBEDDING, error', completed', rows, wrote, inserted) /\ UNCHANGED faults
          /\ UNCHANGED exc /\ raised' = "none" /\ pc' = "e_loop"
       \/ /\ Rollback /\ faults' = faults \cup {"commit"} /\ exc' = DbError /\ raised' = DbError.type /\ pc' = AfterRaise
    /\ lastStep' = "EmbedInit"
    /\ UNCHANGED <<mode, exists, nchunks, parseFailed>>
    /\ UNCHANGED nonPipeline

\* one iteration of the batch loop whose adapter call, stores, progress callback
\* and commit all succeed
BatchOk ==
    /\ pc = "e_loop" /\ HasBatch(i, bs, nchunks)
    /\ submitted' = Append(submitted, i)
    /\ processed' = processed + Cardinality(BatchIds(i, bs, nchunks))
    /\ Commit(status, error, completed,
              StoreRows(BatchIds(i, bs, nchunks)), StoreWrote(BatchIds(i, bs, nchunks)),
              StoreInserted(BatchIds(i, bs, nchunks)))
    /\ okBatches' = okBatches \cup {i}
    /\ i' = i + 1 /\ lastStep' = "BatchOk"
    /\ UNCHANGED <<pc, mode, exists, docVars, nchunks, calls, bs, failed, slept,
                   adapterFailed, otherFault, exc, raised, summary, parseFailed>>
    /\ UNCHANGED faults
    /\ UNCHANGED nonPipeline

\* the adapter call succeeds, the rows are staged, processed_chunks is raised,
\* then the progress callback raises: except Exception records the batch
BatchCallbackFail ==
    /\ pc = "e_loop" /\ HasBatch(i, bs, nchunks) /\ mode = "direct"
    /\ submitted' = Append(submitted, i)
    /\ processed' = processed + Cardinality(BatchIds(i, bs, nchunks))
    /\ rows' = StoreRows(BatchIds(i, bs, nchunks))
    /\ wrote' = StoreWrote(BatchIds(i, bs, nchunks))
    /\ inserted' = StoreInserted(BatchIds(i, bs, nchunks))
    /\ failed' = failed \o BatchIdSeq(i, bs, nchunks)
    /\ otherFault' = TRUE
    /\ i' = i + 1 /\ lastStep' = "BatchCallbackFail"
    /\ UNCHANGED <<pc, mode, exists, docVars, ddocVars, drows, dwrote, dinserted, nchunks,
                   calls,
                   bs, slept, adapterFailed, okBatches, exc, raised, summary, parseFailed>>
    /\ UNCHANGED faults
    /\ UNCHANGED nonPipeline

\* as BatchOk up to db.commit(), which raises: except Exception records the batch
BatchCommitFail ==
    /\ pc = "e_loop" /\ HasBatch(i, bs, nchunks)
    /\ submitted' = Append(submitted, i)
    /\ processed' = processed + Cardinality(BatchIds(i, bs, nchunks))
    /\ Rollback
    /\ failed' = failed \o BatchIdSeq(i, bs, nchunks)
    /\ otherFault' = TRUE
    /\ i' = i + 1 /\ lastStep' = "BatchCommitFail"
    /\ UNCHANGED <<pc, mode, exists, docVars, nchunks, calls, bs, slept, adapterFailed,
                   okBatches, exc, raised, summary, parseFailed>>
    /\ UNCHANGED faults
    /\ UNCHANGED nonPipeline

\* break instead of continue
BatchApiErrorBreaks ==
    /\ pc = "e_loop" /\ HasBatch(i, bs, nchunks)
    /\ submitted' = Append(submitted, i)
    /\ failed' = failed \o BatchIdSeq(i, bs, nchunks)
    /\ adapterFailed' = adapterFailed \cup {i}
    /\ i' = nchunks /\ lastStep' = "BatchApiError"
    /\ UNCHANGED <<pc, mode, exists, docVars, ddocVars, rowVars, nchunks, calls, bs,
                   processed, slept, otherFault, okBatches, exc, raised, summary,
                   parseFailed>>
    /\ UNCHANGED faults
    /\ UNCHANGED nonPipeline

\* the adapter raises APIError: record the batch, continue
BatchApiError ==
    /\ pc = "e_loop" /\ HasBatch(i, bs, nchunks)
    /\ submitted' = Append(submitted, i)
    /\ failed' = failed \o BatchIdSeq(i, bs, nchunks)
    /\ adapterFailed' = adapterFailed \cup {i}
    /\ i' = i + 1 /\ lastStep' = "BatchApiError"
    /\ UNCHANGED <<pc, mode, exists, docVars, ddocVars, rowVars, nchunks, calls, bs,
                   processed, slept, otherFault, okBatches, exc, raised, summary,
                   parseFailed>>
    /\ UNCHANGED faults
    /\ UNCHANGED nonPipeline

\* the adapter raises RateLimitError: record the batch, sleep, continue
BatchRateLimit ==
    /\ pc = "e_loop" /\ HasBatch(i, bs, nchunks)
    /\ submitted' = Append(submitted, i)
    /\ failed' = failed \o BatchIdSeq(i, bs, nchunks)
    /\ adapterFailed' = adapterFailed \cup {i}
    /\ slept' = Append(slept, <<i, WaitTime(i)>>)
    /\ i' = i + 1 /\ lastStep' = "BatchRateLimit"
    /\ UNCHANGED <<pc, mode, exists, docVars, ddocVars, rowVars, nchunks, calls, bs,
                   processed, otherFault, okBatches, exc, raised, summary, parseFailed>>
    /\ UNCHANGED faults
    /\ UNCHANGED nonPipeline

\* the adapter raises anything else (a timeout, a connection error): except
\* Exception records the batch, continue
BatchOtherError ==
    /\ pc = "e_loop" /\ HasBatch(i, bs, nchunks)
    /\ submitted' = Append(submitted, i)
    /\ failed' = failed \o BatchIdSeq(i, bs, nchunks)
    /\ adapterFailed' = adapterFailed \cup {i}
    /\ i' = i + 1 /\ lastStep' = "BatchOtherError"
    /\ UNCHANGED <<pc, mode, exists, docVars, ddocVars, rowVars, nchunks, calls, bs,
                   processed, slept, otherFault, okBatches, exc, raised, summary,
                   parseFailed>>
    /\ UNCHANGED faults
    /\ UNCHANGED nonPipeline

\* the dictionary of lines 250-259
Results ==
    [total_chunks |-> nchunks, processed_chunks |-> processed,
     failed_chunks |-> Len(failed), failed_chunk_ids |-> failed,
     success |-> (Len(failed) = 0)]

\* the note written whatever the count
FinalNoteAlways == FailedNote(Len(failed))

\* error_message of the final status update (None when nothing failed)
FinalNote == IF failed # << >> THEN FailedNote(Len(failed)) ELSE NoMsg

\* lines 229-266: the loop is over; _update_document_status(COMPLETED[, note]),
\* statistics, results
FinalStatus ==
    /\ pc = "e_loop" /\ ~HasBatch(i, bs, nchunks)
    /\ status' = COMPLETED /\ started' = UpdatedStarted(COMPLETED)
    /\ completed' = UpdatedCompleted(COMPLETED) /\ error' = UpdatedError(FinalNote)
    /\ \/ /\ Commit(COMPLETED, error', completed', rows, wrote, inserted) /\ UNCHANGED faults
          /\ summary' = Results /\ raised' = "returned" /\ UNCHANGED exc
          /\ pc' = AfterReturn
       \/ /\ Rollback /\ faults' = faults \cup {"commit"} /\ exc' = DbError /\ UNCHANGED <<summary, raised>> /\ pc' = "e_handler"
    /\ lastStep' = "FinalStatus"
    /\ UNCHANGED <<mode, exists, nchunks, calls, callVars, parseFailed>>
    /\ UNCHANGED nonPipeline

\* lines 268-281: except Exception of the whole method
EmbedHandler ==
    /\ pc = "e_handler"
    /\ status' = FAILED /\ started' = UpdatedStarted(FAILED)
    /\ completed' = UpdatedCompleted(FAILED) /\ error' = UpdatedError(StrOf(exc))
    /\ \/ /\ Commit(FAILED, error', completed', rows, wrote, inserted) /\ UNCHANGED faults
          /\ exc' = EmbeddingServiceError(exc)
       \/ /\ Rollback /\ faults' = faults \cup {"commit"} /\ exc' = DbError
    /\ raised' = exc'.type
    /\ pc' = AfterRaise /\ lastStep' = "EmbedHandler"
    /\ UNCHANGED <<mode, exists, nchunks, calls, callVars, summary, parseFailed>>
    /\ UNCHANGED nonPipeline

\* embed_document_chunks called again on the document and its chunks, with the
\* document as a new session loads it
CallEmbed ==
    /\ pc = "done" /\ exists /\ calls < MaxCalls
    /\ mode' = "direct" /\ pc' = "e_init"
    /\ status' = dstatus /\ error' = derror /\ completed' = dcompleted
    /\ rows' = drows /\ wrote' = {} /\ inserted' = {} /\ dwrote' = {} /\ dinserted' = {}
    /\ bs' = 1 /\ i' = 0 /\ failed' = << >> /\ processed' = 0 /\ submitted' = << >>
    /\ slept' = << >> /\ adapterFailed' = {} /\ otherFault' = FALSE /\ okBatches' = {}
    /\ exc' = NoExc /\ raised' = "none" /\ summary' = NoSummary /\ lastStep' = "CallEmbed"
    /\ UNCHANGED <<exists, started, ddocVars, drows, nchunks, calls, parseFailed>>
    /\ faults' = {}
    /\ UNCHANGED nonPipeline

PNext ==
    \/ GetNotFound \/ StartParsing \/ ParseOk \/ ParseFail \/ StartChunking
    \/ CreateChunks \/ StartEmbedding \/ AfterEmbed \/ Handler
    \/ EmbedInit \/ BatchOk \/ BatchCallbackFail \/ BatchCommitFail
    \/ BatchApiError \/ BatchRateLimit \/ BatchOtherError
    \/ FinalStatus \/ EmbedHandler \/ CallEmbed

\* ------------------------------------------------------- OpenAIClient
MAX_EMBEDDING_INPUTS_PER_REQUEST == 2048

BatchArgs == (1..MaxBatchArg) \cup {MAX_EMBEDDING_INPUTS_PER_REQUEST + 1}
\* the adapter never looks into a text: the texts are told apart by their labels
TextLists == {[k \in 1..n |-> k] : n \in 0..MaxTexts}
Tasks == 1..MaxTexts
QuizCallers == 1..MaxQuizCallers

\* the vector the provider computes for a text
Embedding(t) == <<"vector", t>>

\* effective_batch_size = min(batch_size, self.MAX_EMBEDDING_INPUTS_PER_REQUEST)
EffectiveBatchSize(size) == Min(size, MAX_EMBEDDING_INPUTS_PER_REQUEST)

\* for i in range(0, len(texts), effective_batch_size): the number of tasks
NumTasks(ts, size) == (Len(ts) + EffectiveBatchSize(size) - 1) \div EffectiveBatchSize(size)
\* the task's start_index i and its batch texts[i : i + effective_batch_size]
StartIndex(t, size) == (t - 1) * EffectiveBatchSize(size)
TaskBatch(ts, t, size) ==
    SubSeq(ts, StartIndex(t, size) + 1,
           Min(StartIndex(t, size) + EffectiveBatchSize(size), Len(ts)))

\* the index within the batch instead of the global one
ProcessEmbeddingBatchLocalIndex(batch, start_index) ==
    [k \in 1..Len(batch) |-> [embedding |-> Embedding(batch[k]), index |-> k - 1]]

\* _process_embedding_batch after the response: one EmbeddingResult per item of
\* response.data, with the global index start_index + i
ProcessEmbeddingBatch(batch, start_index) ==
    [k \in 1..Len(batch) |->
        [embedding |-> Embedding(batch[k]), index |-> start_index + (k - 1)]]

\* [item for sublist in batch_results for item in sublist], batch_results in
\* task order (asyncio.gather keeps the order of its arguments)
RECURSIVE Flatten(_, _)
Flatten(results, n) ==
    IF n = 0 THEN << >> ELSE Flatten(results, n - 1) \o results[n]

\* list.sort(key=lambda x: x.index): a stable sort
RECURSIVE InsertByIndex(_, _)
InsertByIndex(sorted, x) ==
    IF sorted = << >> THEN <<x>>
    ELSE IF sorted[Len(sorted)].index <= x.index THEN Append(sorted, x)
    ELSE Append(InsertByIndex(SubSeq(sorted, 1, Len(sorted) - 1), x), sorted[Len(sorted)])
RECURSIVE SortByIndex(_)
SortByIndex(xs) ==
    IF xs = << >> THEN << >>
    ELSE InsertByIndex(SortByIndex(SubSeq(xs, 1, Len(xs) - 1)), xs[Len(xs)])

\* no gate
CanAcquireAlways(value) == TRUE

\* asyncio.Semaphore.acquire returns at once only while a slot is free
CanAcquire(value) == value > 0

Running == [state |-> "running", results |-> << >>]

AInit ==
    /\ texts \in TextLists /\ batchArg \in BatchArgs
    /\ task = [t \in Tasks |-> IF t <= NumTasks(texts, batchArg) THEN "created" ELSE "unused"]
    /\ taskResult = [t \in Tasks |-> << >>]
    /\ outOfOrder = FALSE
    /\ semValue = MaxConcurrentRequests
    /\ out = Running
    /\ quiz = [q \in QuizCallers |-> "new"]
    /\ quizSem = [q \in QuizCallers |-> MaxConcurrentRequests]
    /\ requests = [t \in Tasks |-> 0] /\ failure = [t \in Tasks |-> "none"]
    /\ qrequests = [q \in QuizCallers |-> 0] /\ qfailure = [q \in QuizCallers |-> "none"]

\* the state of the adapter while nothing uses it
AIdle ==
    /\ texts = << >> /\ batchArg = 1
    /\ task = [t \in Tasks |-> "unused"] /\ taskResult = [t \in Tasks |-> << >>]
    /\ outOfOrder = FALSE /\ semValue = MaxConcurrentRequests
    /\ out = Running
    /\ quiz = [q \in QuizCallers |-> "new"]
    /\ quizSem = [q \in QuizCallers |-> MaxConcurrentRequests]
    /\ requests = [t \in Tasks |-> 0] /\ failure = [t \in Tasks |-> "none"]
    /\ qrequests = [q \in QuizCallers |-> 0] /\ qfailure = [q \in QuizCallers |-> "none"]

\* if not texts: return []
ReturnEmpty ==
    /\ out.state = "running" /\ texts = << >>
    /\ out' = [state |-> "returned", results |-> << >>]
    /\ UNCHANGED <<texts, batchArg, task, taskResult, outOfOrder, semValue, quiz, quizSem>>
    /\ UNCHANGED nonAdapter
    /\ UNCHANGED <<requests, failure, qrequests, qfailure>>

\* async with self._semaphore: the task enters and sends its request
TaskAcquire(t) ==
    /\ task[t] = "created" /\ CanAcquire(semValue)
    /\ semValue' = semValue - 1
    /\ task' = [task EXCEPT ![t] = "inflight"]
    /\ UNCHANGED <<texts, batchArg, taskResult, outOfOrder, out, quiz, quizSem>>
    /\ UNCHANGED nonAdapter
    /\ requests' = [requests EXCEPT ![t] = @ + 1]
    /\ UNCHANGED <<failure, qrequests, qfailure>>

\* the response arrives: the slot is released, the results are built
TaskRespond(t) ==
    /\ task[t] = "inflight"
    /\ semValue' = semValue + 1
    /\ task' = [task EXCEPT ![t] = "done"]
    /\ taskResult' = [taskResult EXCEPT
                        ![t] = ProcessEmbeddingBatch(TaskBatch(texts, t, batchArg),
                                                     StartIndex(t, batchArg))]
    /\ outOfOrder' = (outOfOrder \/ \E u \in 1..(t - 1) : task[u] \in {"created", "inflight"})
    /\ UNCHANGED <<texts, batchArg, out, quiz, quizSem>>
    /\ UNCHANGED nonAdapter
    /\ UNCHANGED <<requests, failure, qrequests, qfailure>>

\* what embeddings.create can raise: httpx.TimeoutException or
\* httpx.ConnectError, OpenAIRateLimitError, another OpenAIAPIError
FailureKinds == {"transient", "ratelimit", "provider"}

\* the request raises: the slot is released, the exception leaves the task
TaskFail(t) ==
    /\ task[t] = "inflight"
    /\ \E kind \in FailureKinds : failure' = [failure EXCEPT ![t] = kind]
    /\ UNCHANGED <<requests, qrequests, qfailure>>
    /\ semValue' = semValue + 1
    /\ task' = [task EXCEPT ![t] = "failed"]
    /\ outOfOrder' = (outOfOrder \/ \E u \in 1..(t - 1) : task[u] \in {"created", "inflight"})
    /\ UNCHANGED <<texts, batchArg, taskResult, out, quiz, quizSem>>
    /\ UNCHANGED nonAdapter

\* asyncio.gather returns when every task is done: flatten, sort, return
GatherReturn ==
    /\ out.state = "running" /\ texts # << >>
    /\ \A t \in 1..NumTasks(texts, batchArg) : task[t] = "done"
    /\ out' = [state |-> "returned",
               results |-> SortByIndex(Flatten(taskResult, NumTasks(texts, batchArg)))]
    /\ UNCHANGED <<texts, batchArg, task, taskResult, outOfOrder, semValue, quiz, quizSem>>
    /\ UNCHANGED nonAdapter
    /\ UNCHANGED <<requests, failure, qrequests, qfailure>>

\* asyncio.gather raises the first exception of a task; the other tasks go on
GatherRaise ==
    /\ out.state = "running"
    /\ \E t \in 1..NumTasks(texts, batchArg) : task[t] = "failed"
    /\ out' = [state |-> "raised", results |-> << >>]
    /\ UNCHANGED <<texts, batchArg, task, taskResult, outOfOrder, semValue, quiz, quizSem>>
    /\ UNCHANGED nonAdapter
    /\ UNCHANGED <<requests, failure, qrequests, qfailure>>

\* explain_answer: top_chunks embeds the query through the embedding service's
\* client (get_embedding, async with self._semaphore) ...
QuizEmbedAcquire(q) ==
    /\ quiz[q] = "new" /\ CanAcquire(semValue)
    /\ semValue' = semValue - 1
    /\ quiz' = [quiz EXCEPT ![q] = "embedding"]
    /\ UNCHANGED <<texts, batchArg, task, taskResult, outOfOrder, out, quizSem>>
    /\ UNCHANGED nonAdapter
    /\ qrequests' = [qrequests EXCEPT ![q] = @ + 1]
    /\ UNCHANGED <<requests, failure, qfailure>>

QuizEmbedRelease(q) ==
    /\ quiz[q] = "embedding"
    /\ semValue' = semValue + 1
    /\ quiz' = [quiz EXCEPT ![q] = "retrieved"]
    /\ UNCHANGED <<texts, batchArg, task, taskResult, outOfOrder, out, quizSem>>
    /\ UNCHANGED nonAdapter
    /\ UNCHANGED <<requests, failure, qrequests, qfailure>>

\* get_embedding: the request raises, the slot is released, the exception
\* leaves get_embedding and top_chunks
QuizEmbedFail(q) ==
    /\ quiz[q] = "embedding"
    /\ semValue' = semValue + 1
    /\ quiz' = [quiz EXCEPT ![q] = "failed"]
    /\ \E kind \in FailureKinds : qfailure' = [qfailure EXCEPT ![q] = kind]
    /\ UNCHANGED <<texts, batchArg, task, taskResult, outOfOrder, out, quizSem>>
    /\ UNCHANGED <<requests, failure, qrequests>>
    /\ UNCHANGED nonAdapter

\* ... and get_completion goes through the OpenAIClient the service made for itself
QuizCompletionAcquire(q) ==
    /\ quiz[q] = "retrieved" /\ CanAcquire(quizSem[q])
    /\ quizSem' = [quizSem EXCEPT ![q] = @ - 1]
    /\ quiz' = [quiz EXCEPT ![q] = "completing"]
    /\ UNCHANGED <<texts, batchArg, task, taskResult, outOfOrder, semValue, out>>
    /\ UNCHANGED nonAdapter
    /\ UNCHANGED <<requests, failure, qrequests, qfailure>>

QuizCompletionRelease(q) ==
    /\ quiz[q] = "completing"
    /\ quizSem' = [quizSem EXCEPT ![q] = @ + 1]
    /\ quiz' = [quiz EXCEPT ![q] = "done"]
    /\ UNCHANGED <<texts, batchArg, task, taskResult, outOfOrder, semValue, out>>
    /\ UNCHANGED nonAdapter
    /\ UNCHANGED <<requests, failure, qrequests, qfailure>>

ANext ==
    \/ ReturnEmpty \/ GatherReturn \/ GatherRaise
    \/ \E t \in Tasks : TaskAcquire(t) \/ TaskRespond(t) \/ TaskFail(t)
    \/ \E q \in QuizCallers :
          \/ QuizEmbedAcquire(q) \/ QuizEmbedRelease(q) \/ QuizEmbedFail(q)
          \/ QuizCompletionAcquire(q) \/ QuizCompletionRelease(q)

\* requests in flight through the embedding service's client, through the quiz
\* clients, and in the whole process
SharedInFlight ==
    Cardinality({t \in Tasks : task[t] = "inflight"})
    + Cardinality({q \in QuizCallers : quiz[q] = "embedding"})
QuizInFlight(q) == IF quiz[q] = "completing" THEN 1 ELSE 0
TotalInFlight == SharedInFlight + Cardinality({q \in QuizCallers : quiz[q] = "completing"})

\* ------------------------------------------------------- top_chunks
\* a text is a sequence of characters; " " is whitespace
SP == " "
NL == "NL"
\* the characters str.strip and the regex class \s take for whitespace
IsSpace(c) == c \in {SP, NL}
TextValues == << << >>, <<SP>>, <<SP, "a", SP>> >>
\* cosine distances in halves: 0, 0.5, 1, 1.5, 2
DistanceValues == <<0, 1, 2, 3, 4>>
\* 1.0 in halves
One == 2
\* limit=effective_limit * 3
FetchFactor == 3
Limits == 0..MaxLimit

\* str.strip()
RECURSIVE LStrip(_)
LStrip(t) == IF t # << >> /\ IsSpace(Head(t)) THEN LStrip(Tail(t)) ELSE t
RECURSIVE RStrip(_)
RStrip(t) == IF t # << >> /\ IsSpace(t[Len(t)]) THEN RStrip(SubSeq(t, 1, Len(t) - 1)) ELSE t
Strip(t) == RStrip(LStrip(t))

\* the kinds of chunk row the search can meet: an embedded chunk of the target
\* document with any text and distance, a chunk of the target document without
\* an embedding, an embedded chunk of another document right at the query
NumTargetKinds == Len(TextValues) * Len(DistanceValues)
RowKinds == 1..(NumTargetKinds + 2)
RowOf(k) ==
    IF k <= NumTargetKinds
    THEN [doc |-> "target", embedded |-> TRUE,
          text |-> TextValues[((k - 1) % Len(TextValues)) + 1],
          distance |-> DistanceValues[((k - 1) \div Len(TextValues)) + 1]]
    ELSE IF k = NumTargetKinds + 1
    THEN [doc |-> "target", embedded |-> FALSE, text |-> <<"a">>, distance |-> 0]
    ELSE [doc |-> "other", embedded |-> TRUE, text |-> <<"a">>, distance |-> 0]

\* the tables up to the order of the rows: kinds in non-decreasing order
RECURSIVE KindLists(_)
KindLists(n) ==
    IF n = 0 THEN {<< >>}
    ELSE UNION {{Append(l, k) : k \in {j \in RowKinds : l = << >> \/ l[Len(l)] <= j}} :
                  l \in KindLists(n - 1)}
Stores == {[c \in 1..Len(l) |-> RowOf(l[c])] : l \in UNION {KindLists(n) : n \in 0..MaxStored}}

\* the join with the embeddings without the document filter
JoinedAnyDocument(st) == {c \in 1..Len(st) : st[c].embedded}

\* .join(DocumentEmbedding, ...).where(DocumentChunk.document_id == document_id)
Joined(st) == {c \in 1..Len(st) : st[c].embedded /\ st[c].doc = "target"}

\* .order_by(distance): rows of equal distance come in either id order
Before(st, a, b, rev) ==
    \/ st[a].distance < st[b].distance
    \/ st[a].distance = st[b].distance /\ (IF rev THEN a > b ELSE a < b)
RECURSIVE Ordered(_, _, _)
Ordered(st, ids, rev) ==
    IF ids = {} THEN << >>
    ELSE LET first == CHOOSE a \in ids : \A b \in ids \ {a} : Before(st, a, b, rev)
         IN  <<first>> \o Ordered(st, ids \ {first}, rev)

\* search_similar_chunks: (chunk, distance) rows, nearest first, at most lim
SearchSimilarChunks(st, lim, rev) ==
    LET all == Ordered(st, Joined(st), rev)
    IN  [n \in 1..Min(lim, Len(all)) |-> <<all[n], st[all[n]].distance>>]

\* 1.0 - distance without the max
SimilarityUnclamped(distance) == One - distance

\* similarity = max(0.0, 1.0 - float(distance))
Similarity(distance) == IF One - distance > 0 THEN One - distance ELSE 0

\* effective_limit = max(1, limit)
EffectiveLimit(lim) == IF lim > 1 THEN lim ELSE 1

\* the loop of lines 70-91 from raw_results[k] on
RECURSIVE Collect(_, _, _, _, _)
Collect(st, rs, k, acc, lim) ==
    IF k > Len(rs) THEN acc
    ELSE LET text == Strip(st[rs[k][1]].text)
         IN  IF text = << >> THEN Collect(st, rs, k + 1, acc, lim)
             ELSE LET more == Append(acc, [chunk_id |-> rs[k][1], text |-> text,
                                            score |-> Similarity(rs[k][2])])
                  IN  IF Len(more) >= lim THEN more
                      ELSE Collect(st, rs, k + 1, more, lim)

\* the first check accepting a document still being embedded
ReadyOrEmbedding(s) == s \in {COMPLETED, EMBEDDING}

\* document.processing_status != ProcessingStatus.COMPLETED (members compared)
Ready(s) == s = COMPLETED

\* the list returned whatever it holds
EndingAlwaysReturns(cs) == "returned"

\* if not chunks: raise DocumentRetrievalError(...); return chunks
Ending(cs) == IF cs = << >> THEN "NoRelevantContext" ELSE "returned"

RInit ==
    /\ rpc = "start" /\ rstatus \in ProcessingStatus
    /\ query \in Range(TextValues) /\ limit \in Limits
    /\ store = << >> /\ raw = << >> /\ chunks = << >> /\ outcome = "none"
    /\ providerCalls = 0 /\ searches = 0

\* no top_chunks call
RIdle ==
    /\ rpc = "idle" /\ rstatus = PENDING /\ query = << >> /\ limit = 0
    /\ store = << >> /\ raw = << >> /\ chunks = << >> /\ outcome = "none"
    /\ providerCalls = 0 /\ searches = 0

\* lines 48-49
NotReady ==
    /\ rpc = "start" /\ ~Ready(rstatus)
    /\ outcome' = "NotReady" /\ rpc' = "done"
    /\ UNCHANGED <<rstatus, query, limit, store, raw, chunks, providerCalls, searches>>
    /\ UNCHANGED nonRetrieval

\* lines 51-53
EmptyQuery ==
    /\ rpc = "start" /\ Ready(rstatus) /\ Strip(query) = << >>
    /\ outcome' = "EmptyQuery" /\ rpc' = "done"
    /\ UNCHANGED <<rstatus, query, limit, store, raw, chunks, providerCalls, searches>>
    /\ UNCHANGED nonRetrieval

\* lines 55-61: get_embedding_for_text returns or raises
EmbedQuery ==
    /\ rpc = "start" /\ Ready(rstatus) /\ Strip(query) # << >>
    /\ providerCalls' = providerCalls + 1
    /\ \/ rpc' = "search" /\ UNCHANGED outcome
       \/ rpc' = "done" /\ outcome' = "EmbeddingFailed"
    /\ UNCHANGED <<rstatus, query, limit, store, raw, chunks, searches>>
    /\ UNCHANGED nonRetrieval

\* lines 63-68: the search runs on the rows the database holds then
Search ==
    /\ rpc = "search"
    /\ searches' = searches + 1
    /\ \E st \in Stores, rev \in BOOLEAN :
          /\ store' = st
          /\ raw' = SearchSimilarChunks(st, EffectiveLimit(limit) * FetchFactor, rev)
    /\ rpc' = "collect"
    /\ UNCHANGED <<rstatus, query, limit, chunks, outcome, providerCalls>>
    /\ UNCHANGED nonRetrieval

\* lines 70-96
CollectChunks ==
    /\ rpc = "collect"
    /\ chunks' = Collect(store, raw, 1, << >>, EffectiveLimit(limit))
    /\ outcome' = Ending(chunks')
    /\ rpc' = "done"
    /\ UNCHANGED <<rstatus, query, limit, store, raw, providerCalls, searches>>
    /\ UNCHANGED nonRetrieval

RNext == NotReady \/ EmptyQuery \/ EmbedQuery \/ Search \/ CollectChunks

\* ------------------------------ two pipelines in embed_document_chunks
\* Each document has MaxDocChunks chunks and is embedded in batches of one
\* chunk; every await of the loop is a point where the other pipeline may run.
Docs == {1, 2}
DocChunks == 1..MaxDocChunks
RowsOf(d, table) == {r \in table : r[1] = d}

\* a failed_chunks list kept on the shared service instead of in the call
FailedShared(d, ids) == [e \in Docs |-> tfailed[e] \o ids]

\* failed_chunks.extend([c.id for c in batch]): a local of the call
FailedAfter(d, ids) == [tfailed EXCEPT ![d] = @ \o ids]

TInit ==
    /\ tpc = [d \in Docs |-> "loop"] /\ ti = [d \in Docs |-> 0]
    /\ tfailed = [d \in Docs |-> << >>] /\ tfaults = [d \in Docs |-> {}]
    /\ tstaged = [d \in Docs |-> {}] /\ tembedded = {}
    /\ tstatus = [d \in Docs |-> EMBEDDING]
    /\ tsummary = [d \in Docs |-> NoSummary]
    /\ tslept = [d \in Docs |-> 0]

\* no pipeline
TIdle ==
    /\ tpc = [d \in Docs |-> "idle"] /\ ti = [d \in Docs |-> 0]
    /\ tfailed = [d \in Docs |-> << >>] /\ tfaults = [d \in Docs |-> {}]
    /\ tstaged = [d \in Docs |-> {}] /\ tembedded = {}
    /\ tstatus = [d \in Docs |-> PENDING]
    /\ tsummary = [d \in Docs |-> NoSummary]
    /\ tslept = [d \in Docs |-> 0]

\* get_embeddings_batch for the batch: the request enters the gate
DocSubmit(d) ==
    /\ tpc[d] = "loop" /\ HasBatch(ti[d], 1, MaxDocChunks)
    /\ CanAcquire(semValue) /\ semValue' = semValue - 1
    /\ tpc' = [tpc EXCEPT ![d] = "awaiting"]
    /\ UNCHANGED <<ti, tfailed, tfaults, tstaged, tembedded, tstatus, tsummary, tslept>>
    /\ UNCHANGED nonTwoDocs

\* the embeddings arrive: _store_embedding for the chunks of the batch
DocStore(d) ==
    /\ tpc[d] = "awaiting"
    /\ semValue' = semValue + 1
    /\ tstaged' = [tstaged EXCEPT ![d] = @ \cup {<<d, c>> : c \in BatchIds(ti[d], 1, MaxDocChunks)}]
    /\ tpc' = [tpc EXCEPT ![d] = "committing"]
    /\ UNCHANGED <<ti, tfailed, tfaults, tembedded, tstatus, tsummary, tslept>>
    /\ UNCHANGED nonTwoDocs

\* db.commit() of the batch
DocCommit(d) ==
    /\ tpc[d] = "committing"
    /\ tembedded' = tembedded \cup tstaged[d]
    /\ tstaged' = [tstaged EXCEPT ![d] = {}]
    /\ ti' = [ti EXCEPT ![d] = @ + 1]
    /\ tpc' = [tpc EXCEPT ![d] = "loop"]
    /\ UNCHANGED <<tfailed, tfaults, tstatus, tsummary, tslept>>
    /\ UNCHANGED <<semValue, nonTwoDocs>>

\* the adapter raises APIError or another exception: record the batch, continue
DocBatchError(d) ==
    /\ tpc[d] = "awaiting"
    /\ semValue' = semValue + 1
    /\ tfailed' = FailedAfter(d, BatchIdSeq(ti[d], 1, MaxDocChunks))
    /\ tfaults' = [tfaults EXCEPT ![d] = @ \cup {ti[d]}]
    /\ ti' = [ti EXCEPT ![d] = @ + 1]
    /\ tpc' = [tpc EXCEPT ![d] = "loop"]
    /\ UNCHANGED <<tstaged, tembedded, tstatus, tsummary, tslept>>
    /\ UNCHANGED nonTwoDocs

\* the adapter raises RateLimitError: record the batch, asyncio.sleep
DocRateLimit(d) ==
    /\ tpc[d] = "awaiting"
    /\ semValue' = semValue + 1
    /\ tfailed' = FailedAfter(d, BatchIdSeq(ti[d], 1, MaxDocChunks))
    /\ tfaults' = [tfaults EXCEPT ![d] = @ \cup {ti[d]}]
    /\ tpc' = [tpc EXCEPT ![d] = "sleeping"]
    /\ tslept' = [tslept EXCEPT ![d] = @ + WaitTime(ti[d])]
    /\ UNCHANGED <<ti, tstaged, tembedded, tstatus, tsummary>>
    /\ UNCHANGED nonTwoDocs

\* the sleep is over: continue
DocWake(d) ==
    /\ tpc[d] = "sleeping"
    /\ ti' = [ti EXCEPT ![d] = @ + 1]
    /\ tpc' = [tpc EXCEPT ![d] = "loop"]
    /\ UNCHANGED <<tfailed, tfaults, tstaged, tembedded, tstatus, tsummary, tslept>>
    /\ UNCHANGED <<semValue, nonTwoDocs>>

\* the loop is over: COMPLETED, commit, return the results
DocFinish(d) ==
    /\ tpc[d] = "loop" /\ ~HasBatch(ti[d], 1, MaxDocChunks)
    /\ tstatus' = [tstatus EXCEPT ![d] = COMPLETED]
    /\ tembedded' = tembedded \cup tstaged[d]
    /\ tstaged' = [tstaged EXCEPT ![d] = {}]
    /\ tsummary' = [tsummary EXCEPT ![d] =
                      [total_chunks |-> MaxDocChunks,
                       processed_chunks |-> MaxDocChunks - Len(tfailed[d]),
                       failed_chunks |-> Len(tfailed[d]),
                       failed_chunk_ids |-> tfailed[d],
                       success |-> (Len(tfailed[d]) = 0)]]
    /\ tpc' = [tpc EXCEPT ![d] = "done"]
    /\ UNCHANGED <<ti, tfailed, tfaults, tslept>>
    /\ UNCHANGED <<semValue, nonTwoDocs>>

TNext ==
    \E d \in Docs :
        \/ DocSubmit(d) \/ DocStore(d) \/ DocCommit(d) \/ DocBatchError(d)
        \/ DocRateLimit(d) \/ DocWake(d) \/ DocFinish(d)

\* ------------------------------------------------------- text_chunker
\* A text is a sequence of characters: "a" a lower-case letter, "A" an
\* upper-case letter, "." a sentence-ending mark, SP a blank, NL a line break.
Rep(c, n) == [k \in 1..n |-> c]

\* self.default_chunk_size, self.default_overlap of TextChunker
DefaultChunkSize == 1000
DefaultOverlap == 200
\* len(sentence) < 20 in _split_sentences
ShortSentenceLength == 20

\* the pieces the texts are put together from: a word, a sentence shorter than
\* ShortSentenceLength and one of that length
Units == {Rep("a", 4),
          <<"A", "a", ".">>,
          <<"A">> \o Rep("a", 8) \o <<SP>> \o Rep("a", 9) \o <<".">>}
\* what stands between two pieces: a blank, two blanks, a blank line
Separators == {<<SP>>, <<SP, SP>>, <<NL, NL>>}

RECURSIVE Build(_, _)
Build(us, ss) ==
    IF us = << >> THEN << >>
    ELSE IF Len(us) = 1 THEN us[1]
    ELSE us[1] \o ss[1] \o Build(Tail(us), Tail(ss))

Texts ==
    {<<SP, NL>>}
    \cup UNION {{Build(us, ss) : us \in [1..n -> Units],
                                ss \in [1..(IF n = 0 THEN 0 ELSE n - 1) -> Separators]}
                : n \in 0..MaxUnits}

TextChunk(text, index, start, end, strategy) ==
    [text |-> text, index |-> index, start_char |-> start, end_char |-> end,
     strategy |-> strategy]

\* re.sub(r'\s+', ' ', text)
RECURSIVE CollapseWhitespace(_)
CollapseWhitespace(t) ==
    IF t = << >> THEN << >>
    ELSE IF IsSpace(Head(t)) THEN <<SP>> \o CollapseWhitespace(LStrip(t))
    ELSE <<Head(t)>> \o CollapseWhitespace(Tail(t))

\* the length of the run of line breaks a text starts with
RECURSIVE NewlineRun(_)
NewlineRun(t) == IF t # << >> /\ Head(t) = NL THEN 1 + NewlineRun(Tail(t)) ELSE 0

\* re.sub(r'\n{3,}', '\n\n', text)
RECURSIVE CollapseNewlines(_)
CollapseNewlines(t) ==
    IF t = << >> THEN << >>
    ELSE LET n == NewlineRun(t) IN
         IF n >= 3 THEN <<NL, NL>> \o CollapseNewlines(SubSeq(t, n + 1, Len(t)))
         ELSE IF n > 0 THEN Rep(NL, n) \o CollapseNewlines(SubSeq(t, n + 1, Len(t)))
         ELSE <<Head(t)>> \o CollapseNewlines(Tail(t))

CleanText(t) == Strip(CollapseNewlines(CollapseWhitespace(t)))

\* ChunkingStrategy.__init__: the message of the ValueError, "" where none
StrategyError(size, overlap) ==
    IF size <= 0 THEN "Chunk size must be positive"
    ELSE IF overlap < 0 THEN "Chunk overlap cannot be negative"
    ELSE IF overlap >= size THEN "Chunk overlap must be smaller than chunk size"
    ELSE ""

\* chunk_index += 1
NextChunkIndexStuck(idx) == idx
NextChunkIndex(idx) == idx + 1

\* str.rfind(c, lo, hi)
RFind(t, c, lo, hi) ==
    LET S == {k \in lo..(hi - 1) : t[k + 1] = c}
    IN  IF S = {} THEN -1 ELSE CHOOSE k \in S : \A j \in S : j <= k

Stride(size, overlap) == IF size - overlap <= 0 THEN size ELSE size - overlap

\* the end of the chunk that starts at start: the window's end, or the last
\* blank of the window where that lies beyond 80% of chunk_size
ChunkEnd(t, size, respect, start) ==
    LET window == Min(start + size, Len(t))
        space_pos == RFind(t, SP, start, window)
    IN  IF respect /\ window < Len(t) /\ 10 * space_pos > 10 * start + 8 * size
        THEN space_pos ELSE window

RECURSIVE FixedLoop(_, _, _, _, _, _, _)
FixedLoop(t, size, overlap, respect, current_pos, chunk_index, acc) ==
    IF current_pos >= Len(t) THEN acc
    ELSE LET chunk_end == ChunkEnd(t, size, respect, current_pos)
             chunk_text == Strip(SubSeq(t, current_pos + 1, chunk_end))
             kept == chunk_text # << >>
             acc2 == IF kept
                     THEN Append(acc, TextChunk(chunk_text, chunk_index, current_pos,
                                                chunk_end, "fixed_size"))
                     ELSE acc
             index2 == IF kept THEN NextChunkIndex(chunk_index) ELSE chunk_index
         IN  IF chunk_end >= Len(t) THEN acc2
             ELSE FixedLoop(t, size, overlap, respect,
                            current_pos + Stride(size, overlap), index2, acc2)

\* FixedSizeChunking.chunk_text
FixedSizeChunk(text, size, overlap, respect) ==
    LET t == CleanText(text)
    IN  IF t = << >> THEN << >> ELSE FixedLoop(t, size, overlap, respect, 0, 0, << >>)

RECURSIVE Join(_, _)
Join(parts, sep) ==
    IF parts = << >> THEN << >>
    ELSE IF Len(parts) = 1 THEN parts[1]
    ELSE parts[1] \o sep \o Join(Tail(parts), sep)

RECURSIVE SumLen(_)
SumLen(parts) == IF parts = << >> THEN 0 ELSE Len(Head(parts)) + SumLen(Tail(parts))

\* [p.strip() for p in parts if p.strip()]
RECURSIVE StripAll(_)
StripAll(parts) ==
    IF parts = << >> THEN << >>
    ELSE IF Strip(Head(parts)) = << >> THEN StripAll(Tail(parts))
    ELSE <<Strip(Head(parts))>> \o StripAll(Tail(parts))

\* the 1-based position of the first character at or after k that is no
\* whitespace, Len(t) + 1 where there is none
RECURSIVE SkipSpace(_, _)
SkipSpace(t, k) == IF k <= Len(t) /\ IsSpace(t[k]) THEN SkipSpace(t, k + 1) ELSE k

\* SENTENCE_PATTERN.split(text): the pattern matches a run of whitespace that
\* follows a sentence-ending mark and is followed by an upper-case letter
RECURSIVE PatternSplit(_, _, _, _)
PatternSplit(t, k, cur, acc) ==
    IF k > Len(t) THEN Append(acc, cur)
    ELSE LET j == SkipSpace(t, k) IN
         IF /\ k > 1 /\ t[k - 1] \in {".", "!", "?"} /\ IsSpace(t[k])
            /\ j <= Len(t) /\ t[j] = "A"
         THEN PatternSplit(t, j, << >>, Append(acc, cur))
         ELSE PatternSplit(t, k + 1, Append(cur, t[k]), acc)

\* the merge loop of _split_sentences: a sentence shorter than
\* ShortSentenceLength joins the buffer when the buffer is not empty
RECURSIVE MergeShort(_, _, _)
MergeShort(sentences, buffer, merged) ==
    IF sentences = << >>
    THEN IF buffer # << >> THEN Append(merged, buffer) ELSE merged
    ELSE LET sentence == Head(sentences) IN
         IF Len(sentence) < ShortSentenceLength /\ buffer # << >>
         THEN MergeShort(Tail(sentences), buffer \o <<SP>> \o sentence, merged)
         ELSE MergeShort(Tail(sentences), sentence,
                         IF buffer # << >> THEN Append(merged, buffer) ELSE merged)

\* SentenceChunking._split_sentences
SplitSentences(t) == MergeShort(StripAll(PatternSplit(t, 1, << >>, << >>)), << >>, << >>)

\* the sentences kept for the overlap: the last ones of the chunk, taken from
\* the end until their lengths add up to chunk_overlap
RECURSIVE OverlapSentences(_, _, _)
OverlapSentences(current_chunk, overlap, n) ==
    LET kept == SubSeq(current_chunk, Len(current_chunk) - n + 1, Len(current_chunk))
    IN  IF SumLen(kept) >= overlap \/ n = Len(current_chunk) THEN kept
        ELSE OverlapSentences(current_chunk, overlap, n + 1)

RECURSIVE SentenceLoop(_, _, _, _, _, _, _, _)
SentenceLoop(sentences, size, overlap, current_chunk, current_size, current_start, chunk_index, acc) ==
    IF sentences = << >>
    THEN IF current_chunk # << >>
         THEN LET chunk_text == Join(current_chunk, <<SP>>)
              IN  Append(acc, TextChunk(chunk_text, chunk_index, current_start,
                                        current_start + Len(chunk_text), "sentence"))
         ELSE acc
    ELSE LET sentence == Head(sentences)
             chunk_text == Join(current_chunk, <<SP>>)
             chunk_end == current_start + Len(chunk_text)
             kept == OverlapSentences(current_chunk, overlap, 1)
         IN  IF current_size + Len(sentence) > size /\ current_chunk # << >>
             THEN IF overlap > 0
                  THEN SentenceLoop(Tail(sentences), size, overlap,
                                    Append(kept, sentence),
                                    SumLen(kept) + Len(sentence),
                                    chunk_end - SumLen(kept),
                                    NextChunkIndex(chunk_index),
                                    Append(acc, TextChunk(chunk_text, chunk_index,
                                           current_start, chunk_end, "sentence")))
                  ELSE SentenceLoop(Tail(sentences), size, overlap,
                                    <<sentence>>, Len(sentence), chunk_end,
                                    NextChunkIndex(chunk_index),
                                    Append(acc, TextChunk(chunk_text, chunk_index,
                                           current_start, chunk_end, "sentence")))
             ELSE SentenceLoop(Tail(sentences), size, overlap,
                               Append(current_chunk, sentence),
                               current_size + Len(sentence), current_start,
                               chunk_index, acc)

\* SentenceChunking.chunk_text
SentenceChunk(text, size, overlap) ==
    LET t == CleanText(text)
        sentences == SplitSentences(t)
    IN  IF t = << >> THEN << >>
        ELSE IF sentences = << >> THEN FixedSizeChunk(t, size, overlap, TRUE)
        ELSE SentenceLoop(sentences, size, overlap, << >>, 0, 0, 0, << >>)

\* the 1-based position of the last line break of the whitespace run that
\* starts at k
RECURSIVE LastNewline(_, _, _)
LastNewline(t, k, last) ==
    IF k <= Len(t) /\ IsSpace(t[k])
    THEN LastNewline(t, k + 1, IF t[k] = NL THEN k ELSE last)
    ELSE last

\* re.split(r'\n\s*\n', text): a match starts at a line break and ends at the
\* last line break of the whitespace that follows it
RECURSIVE ParagraphSplit(_, _, _, _)
ParagraphSplit(t, k, cur, acc) ==
    IF k > Len(t) THEN Append(acc, cur)
    ELSE LET last == LastNewline(t, k, k) IN
         IF t[k] = NL /\ last > k
         THEN ParagraphSplit(t, last + 1, << >>, Append(acc, cur))
         ELSE ParagraphSplit(t, k + 1, Append(cur, t[k]), acc)

RECURSIVE ParagraphLoop(_, _, _, _, _, _, _, _)
ParagraphLoop(paragraphs, size, overlap, current_chunk, current_size, current_start, chunk_index, acc) ==
    IF paragraphs = << >>
    THEN IF current_chunk # << >>
         THEN LET chunk_text == Join(current_chunk, <<NL, NL>>)
              IN  Append(acc, TextChunk(chunk_text, chunk_index, current_start,
                                        current_start + Len(chunk_text), "paragraph"))
         ELSE acc
    ELSE LET paragraph == Head(paragraphs)
             chunk_text == Join(current_chunk, <<NL, NL>>)
             chunk_end == current_start + Len(chunk_text)
             last_para == current_chunk[Len(current_chunk)]
             emitted == Append(acc, TextChunk(chunk_text, chunk_index, current_start,
                                              chunk_end, "paragraph"))
         IN  IF current_size + Len(paragraph) > size /\ current_chunk # << >>
             THEN IF overlap > 0 /\ Len(last_para) <= overlap
                  THEN ParagraphLoop(Tail(paragraphs), size, overlap,
                                     <<last_para, paragraph>>,
                                     Len(last_para) + Len(paragraph) + 4,
                                     chunk_end - Len(last_para),
                                     NextChunkIndex(chunk_index), emitted)
                  ELSE ParagraphLoop(Tail(paragraphs), size, overlap,
                                     <<paragraph>>, Len(paragraph) + 4, chunk_end,
                                     NextChunkIndex(chunk_index), emitted)
             ELSE ParagraphLoop(Tail(paragraphs), size, overlap,
                                Append(current_chunk, paragraph),
                                current_size + Len(paragraph) + 4, current_start,
                                chunk_index, acc)

\* ParagraphChunking.chunk_text
ParagraphChunk(text, size, overlap) ==
    LET paragraphs == StripAll(ParagraphSplit(text, 1, << >>, << >>))
    IN  IF text = << >> THEN << >>
        ELSE IF paragraphs = << >> THEN SentenceChunk(text, size, overlap)
        ELSE ParagraphLoop(paragraphs, size, overlap, << >>, 0, 0, 0, << >>)

\* an optional integer argument: given with a value, or left at None
Arg(v) == [given |-> TRUE, value |-> v]
NoArg == [given |-> FALSE, value |-> 0]

\* x or default: None and 0 are both false
OrDefault(a, default) == IF ~a.given \/ a.value = 0 THEN default ELSE a.value

Strategies == {"fixed_size", "sentence", "paragraph"}

Returned(cs) == [outcome |-> "returned", message |-> "", chunks |-> cs]
Raised(message) == [outcome |-> "ValueError", message |-> message, chunks |-> << >>]

\* chunker.chunk_text(text, metadata) of the strategy class of that name
StrategyChunk(strategy, text, size, overlap, respect) ==
    IF strategy = "fixed_size" THEN FixedSizeChunk(text, size, overlap, respect)
    ELSE IF strategy = "sentence" THEN SentenceChunk(text, size, overlap)
    ELSE ParagraphChunk(text, size, overlap)

\* TextChunker.chunk_text
ChunkerChunkText(text, strategy, size_arg, overlap_arg) ==
    LET chunk_size == OrDefault(size_arg, DefaultChunkSize)
        chunk_overlap == OrDefault(overlap_arg, DefaultOverlap)
    IN  IF strategy \notin Strategies THEN Raised("Unknown chunking strategy")
        ELSE IF StrategyError(chunk_size, chunk_overlap) # ""
        THEN Raised(StrategyError(chunk_size, chunk_overlap))
        ELSE Returned(StrategyChunk(strategy, text, chunk_size, chunk_overlap, TRUE))

\* a strategy object built directly with a small valid configuration, or
\* TextChunker.chunk_text called with a strategy name and optional arguments
CInit ==
    /\ cpc = "called"
    /\ ctext \in Texts
    /\ cresult = Returned(<< >>)
    /\ \/ /\ centry = "strategy"
          /\ cstrategy \in Strategies
          /\ csize \in {Arg(11), Arg(25)}
          /\ coverlap \in {Arg(0), Arg(5)}
          /\ crespect \in (IF cstrategy = "fixed_size" THEN BOOLEAN ELSE {TRUE})
       \/ /\ centry = "chunker"
          /\ cstrategy \in Strategies \cup {"semantic"}
          /\ csize \in {NoArg, Arg(100), Arg(150)}
          /\ coverlap \in {NoArg, Arg(0), Arg(50)}
          /\ crespect = TRUE

CIdle ==
    /\ cpc = "idle" /\ centry = "strategy" /\ ctext = << >>
    /\ cstrategy = "fixed_size" /\ csize = NoArg /\ coverlap = NoArg
    /\ crespect = TRUE /\ cresult = Returned(<< >>)

\* FixedSizeChunking(size, overlap, respect).chunk_text(text)
ChunkFixedSize ==
    /\ cpc = "called" /\ centry = "strategy" /\ cstrategy = "fixed_size"
    /\ cresult' = Returned(FixedSizeChunk(ctext, csize.value, coverlap.value, crespect))
    /\ cpc' = "ended"
    /\ UNCHANGED <<centry, ctext, cstrategy, csize, coverlap, crespect>>
    /\ UNCHANGED nonChunker

\* SentenceChunking(size, overlap).chunk_text(text)
ChunkSentence ==
    /\ cpc = "called" /\ centry = "strategy" /\ cstrategy = "sentence"
    /\ cresult' = Returned(SentenceChunk(ctext, csize.value, coverlap.value))
    /\ cpc' = "ended"
    /\ UNCHANGED <<centry, ctext, cstrategy, csize, coverlap, crespect>>
    /\ UNCHANGED nonChunker

\* ParagraphChunking(size, overlap).chunk_text(text)
ChunkParagraph ==
    /\ cpc = "called" /\ centry = "strategy" /\ cstrategy = "paragraph"
    /\ cresult' = Returned(ParagraphChunk(ctext, csize.value, coverlap.value))
    /\ cpc' = "ended"
    /\ UNCHANGED <<centry, ctext, cstrategy, csize, coverlap, crespect>>
    /\ UNCHANGED nonChunker

\* text_chunker.chunk_text(text, strategy, chunk_size, chunk_overlap)
ChunkText ==
    /\ cpc = "called" /\ centry = "chunker"
    /\ cresult' = ChunkerChunkText(ctext, cstrategy, csize, coverlap)
    /\ cpc' = "ended"
    /\ UNCHANGED <<centry, ctext, cstrategy, csize, coverlap, crespect>>
    /\ UNCHANGED nonChunker

CNext == ChunkFixedSize \/ ChunkSentence \/ ChunkParagraph \/ ChunkText

\* ------------------------------------------------------- document_parser
\* len(text.strip()) < 10 in parse_document
MinTextLength == 10

\* what page.extract_text() does for a page: it throws, or returns a text
PageOutcomes ==
    {[throws |-> TRUE, text |-> << >>]}
    \cup {[throws |-> FALSE, text |-> t] : t \in {<< >>, <<SP>>, <<"a">>, Rep("a", 10)}}

\* the bytes of a text file: letters, run together or set apart by blanks,
\* with or without whitespace around them
FileTexts ==
    {pad \o Join(Rep(<<"a">>, n), sep) \o pad :
        n \in 0..MaxLetters, sep \in {<< >>, <<SP>>}, pad \in {<< >>, <<NL>>}}

Files ==
    {[kind |-> "pdf", pages |-> ps, text |-> << >>] :
        ps \in UNION {[1..n -> PageOutcomes] : n \in 0..MaxPages}}
    \cup {[kind |-> "text", pages |-> << >>, text |-> t] : t \in FileTexts}
    \cup {[kind |-> k, pages |-> << >>, text |-> << >>] :
            k \in {"too_large", "unsupported", "corrupt_pdf"}}

Parsed(text) == [outcome |-> "returned", text |-> text, message |-> ""]
ParsingError(message) ==
    [outcome |-> "DocumentParsingError", text |-> << >>, message |-> message]

\* f"\n[Page {page_num}]\n"
PageMarker(page_num) ==
    <<NL, "[", "P", "a", "g", "e", SP>> \o <<<<"1", "2", "3", "4", "5", "6", "7", "8", "9">>[page_num]>> \o <<"]", NL>>

\* the for loop of parse_pdf: text_parts after the pages from page_num on
RECURSIVE TextParts(_, _, _)
TextParts(pages, page_num, text_parts) ==
    IF page_num > Len(pages) THEN text_parts
    ELSE LET page == pages[page_num] IN
         TextParts(pages, page_num + 1,
             IF page.throws
             THEN Append(text_parts, PageMarker(page_num) \o <<"[", "T", "e", "x", "t", SP, "e", "x", "t", "r", "a", "c", "t", "i", "o", "n", SP, "f", "a", "i", "l", "e", "d", "]">>)
             ELSE IF Strip(page.text) # << >>
             THEN Append(text_parts, PageMarker(page_num) \o page.text)
             ELSE text_parts)

\* DocumentParser.parse_pdf
ParsePdf(file) ==
    LET text_parts == TextParts(file.pages, 1, << >>)
    IN  IF file.kind = "corrupt_pdf" THEN ParsingError("Invalid or corrupted PDF file")
        ELSE IF text_parts = << >>
        THEN ParsingError("Failed to parse PDF: No text could be extracted from PDF")
        ELSE Parsed(Join(text_parts, <<NL>>))

\* DocumentParser.parse_text
ParseText(file) ==
    IF Strip(file.text) = << >>
    THEN ParsingError("Failed to parse text file: Text file appears to be empty")
    ELSE Parsed(file.text)

\* the validation of the extracted text in parse_document
Validated(parsed) ==
    IF parsed.outcome = "returned"
       /\ (parsed.text = << >> \/ Len(Strip(parsed.text)) < MinTextLength)
    THEN ParsingError("Document appears to be empty or contains insufficient text")
    ELSE parsed

XInit ==
    /\ xpc = "called" /\ xfile \in Files /\ xresult = Parsed(<< >>)

XIdle ==
    /\ xpc = "idle" /\ xresult = Parsed(<< >>)
    /\ xfile = [kind |-> "text", pages |-> << >>, text |-> << >>]

\* parse_document of a file that is too large or of no supported type
RejectDocument ==
    /\ xpc = "called" /\ xfile.kind \in {"too_large", "unsupported"}
    /\ xresult' = IF xfile.kind = "too_large"
                  THEN ParsingError("File size exceeds maximum allowed size")
                  ELSE ParsingError("Unsupported file type")
    /\ xpc' = "ended"
    /\ UNCHANGED xfile
    /\ UNCHANGED nonParser

\* parse_document of a file that _detect_parser gives to parse_pdf
ParsePdfDocument ==
    /\ xpc = "called" /\ xfile.kind \in {"pdf", "corrupt_pdf"}
    /\ xresult' = Validated(ParsePdf(xfile))
    /\ xpc' = "ended"
    /\ UNCHANGED xfile
    /\ UNCHANGED nonParser

\* parse_document of a file that _detect_parser gives to parse_text
ParseTextDocument ==
    /\ xpc = "called" /\ xfile.kind = "text"
    /\ xresult' = Validated(ParseText(xfile))
    /\ xpc' = "ended"
    /\ UNCHANGED xfile
    /\ UNCHANGED nonParser

XNext == RejectDocument \/ ParsePdfDocument \/ ParseTextDocument

\* ------------------------------------------------------- specifications
\* a document that reached the embedding stage with n chunks
BInit ==
    /\ pc = "e_init" /\ mode = "pipeline" /\ exists = TRUE
    /\ status = EMBEDDING /\ error = NoMsg /\ started = TRUE /\ completed = FALSE
    /\ dstatus = EMBEDDING /\ derror = NoMsg /\ dcompleted = FALSE
    /\ nchunks \in 1..MaxBackoffChunks
    /\ rows = [c \in ChunkIds |-> 0] /\ wrote = {} /\ inserted = {}
    /\ drows = [c \in ChunkIds |-> 0] /\ dwrote = {} /\ dinserted = {}
    /\ calls = 0 /\ bs = 1 /\ i = 0 /\ failed = << >> /\ processed = 0
    /\ submitted = << >> /\ slept = << >> /\ adapterFailed = {} /\ otherFault = FALSE
    /\ okBatches = {}
    /\ exc = NoExc /\ raised = "none" /\ summary = NoSummary
    /\ parseFailed = FALSE /\ lastStep = "init" /\ faults = {}

BNext ==
    \/ EmbedInit \/ BatchOk \/ BatchRateLimit \/ FinalStatus \/ EmbedHandler
    \/ AfterEmbed \/ Handler

\* ------------------------------------------------- task_queue.TaskQueue
\* TaskStatus values; PENDING, COMPLETED and FAILED are the strings of the
\* document statuses of the same names
RUNNING == "running"
CANCELLED == "cancelled"
TaskStatus == {PENDING, RUNNING, COMPLETED, FAILED, CANCELLED}

\* `task_id in self.tasks` is false
Absent == "absent"
TaskIds == 1..MaxTasks

NoCall == [op |-> "none", task_id |-> 0, before |-> Absent, result |-> "None"]

\* __init__: self.tasks = {}
QInit ==
    /\ tasks = [t \in TaskIds |-> Absent] /\ coroutines = << >>
    /\ cancelled = {} /\ lastCall = NoCall

\* enqueue(task_type, task_func, task_id): the entry is written with status
\* PENDING, whatever was there, and asyncio.create_task schedules _run_task
Enqueue ==
    /\ Len(coroutines) < MaxCoroutines
    /\ \E task_id \in TaskIds :
          /\ tasks' = [tasks EXCEPT ![task_id] = PENDING]
          /\ coroutines' = Append(coroutines, [task_id |-> task_id, at |-> "created"])
          /\ cancelled' = cancelled \ {task_id}
          /\ lastCall' = [op |-> "enqueue", task_id |-> task_id, before |-> tasks[task_id],
                          result |-> "task_id"]
    /\ UNCHANGED nonQueue

\* enqueue with task_id None: UUID() without an argument raises TypeError
\* before anything is stored
EnqueueWithoutId ==
    /\ lastCall' = [op |-> "enqueue", task_id |-> 0, before |-> Absent, result |-> "TypeError"]
    /\ UNCHANGED <<tasks, coroutines, cancelled>>
    /\ UNCHANGED nonQueue

\* self.tasks[task_id]['status'] = value, under `if task_id in self.tasks`
SetStatus(task_id, value) == IF tasks[task_id] # Absent THEN [tasks EXCEPT ![task_id] = value] ELSE tasks

\* _run_task up to `await task_func(**kwargs)`
RunTaskStart ==
    /\ \E k \in 1..Len(coroutines) :
          /\ coroutines[k].at = "created"
          /\ tasks' = SetStatus(coroutines[k].task_id, RUNNING)
          /\ coroutines' = [coroutines EXCEPT ![k].at = "task_func"]
    /\ UNCHANGED <<cancelled, lastCall>>
    /\ UNCHANGED nonQueue

\* task_func returns: the status becomes COMPLETED
RunTaskComplete ==
    /\ \E k \in 1..Len(coroutines) :
          /\ coroutines[k].at = "task_func"
          /\ tasks' = SetStatus(coroutines[k].task_id, COMPLETED)
          /\ coroutines' = [coroutines EXCEPT ![k].at = "ended"]
    /\ UNCHANGED <<cancelled, lastCall>>
    /\ UNCHANGED nonQueue

\* task_func raises: except Exception sets the status FAILED
RunTaskFail ==
    /\ \E k \in 1..Len(coroutines) :
          /\ coroutines[k].at = "task_func"
          /\ tasks' = SetStatus(coroutines[k].task_id, FAILED)
          /\ coroutines' = [coroutines EXCEPT ![k].at = "ended"]
    /\ UNCHANGED <<cancelled, lastCall>>
    /\ UNCHANGED nonQueue

\* cancel_task(task_id): no await, so nothing runs between its test and its write
CancelTask ==
    /\ \E task_id \in TaskIds :
          IF tasks[task_id] \in {PENDING, RUNNING}
          THEN /\ tasks' = [tasks EXCEPT ![task_id] = CANCELLED]
               /\ cancelled' = cancelled \cup {task_id}
               /\ lastCall' = [op |-> "cancel_task", task_id |-> task_id,
                               before |-> tasks[task_id], result |-> "True"]
          ELSE /\ UNCHANGED <<tasks, cancelled>>
               /\ lastCall' = [op |-> "cancel_task", task_id |-> task_id,
                               before |-> tasks[task_id], result |-> "False"]
    /\ UNCHANGED coroutines
    /\ UNCHANGED nonQueue

\* cleanup_old_tasks: the COMPLETED and FAILED entries older than max_age_seconds
\* (old, any set of them) are deleted
CleanupOldTasks ==
    /\ \E old \in SUBSET {t \in TaskIds : tasks[t] \in {COMPLETED, FAILED}} :
          /\ old # {}
          /\ tasks' = [t \in TaskIds |-> IF t \in old THEN Absent ELSE tasks[t]]
          /\ cancelled' = cancelled \ old
    /\ lastCall' = [op |-> "cleanup_old_tasks", task_id |-> 0, before |-> Absent, result |-> "None"]
    /\ UNCHANGED coroutines
    /\ UNCHANGED nonQueue

QNext ==
    \/ Enqueue \/ EnqueueWithoutId \/ RunTaskStart \/ RunTaskComplete \/ RunTaskFail
    \/ CancelTask \/ CleanupOldTasks


\* an upload handed to the coordinator; the adapter is idle
Init == PInit /\ AIdle /\ RIdle /\ TIdle /\ CIdle /\ XIdle /\ QInit
Next == PNext
Spec == Init /\ [][Next]_vars

\* one run of the coordinator and no later call; every call the run makes
\* returns, so a run that can take a step takes one
RunNext ==
    \/ GetNotFound \/ StartParsing \/ ParseOk \/ ParseFail \/ StartChunking
    \/ CreateChunks \/ StartEmbedding \/ AfterEmbed \/ Handler
    \/ EmbedInit \/ BatchOk \/ BatchCommitFail
    \/ BatchApiError \/ BatchRateLimit \/ BatchOtherError
    \/ FinalStatus \/ EmbedHandler
InitRun == PInit /\ AIdle /\ RIdle /\ TIdle /\ CIdle /\ XIdle /\ QInit
SpecRun == InitRun /\ [][RunNext]_vars /\ WF_vars(RunNext)

\* embed_document_chunks on a document of up to MaxBackoffChunks chunks
InitBackoff == BInit /\ AIdle /\ RIdle /\ TIdle /\ CIdle /\ XIdle /\ QInit
SpecBackoff == InitBackoff /\ [][BNext]_vars

\* calls of the adapter: one get_embeddings_batch and the quiz callers
InitAdapter == PInit /\ exists = TRUE /\ AInit /\ RIdle /\ TIdle /\ CIdle /\ XIdle /\ QInit
SpecAdapter == InitAdapter /\ [][ANext]_vars

\* top_chunks calls on documents in every status
InitRetrieval == PInit /\ exists = TRUE /\ AIdle /\ RInit /\ TIdle /\ CIdle /\ XIdle /\ QInit
SpecRetrieval == InitRetrieval /\ [][RNext]_vars

\* two documents in the embedding stage at once
InitTwoDocs == PInit /\ exists = TRUE /\ AIdle /\ RIdle /\ TInit /\ CIdle /\ XIdle /\ QInit
SpecTwoDocs == InitTwoDocs /\ [][TNext]_vars

\* one call of the text chunker on a text of the family
InitChunker == PInit /\ exists = TRUE /\ AIdle /\ RIdle /\ TIdle /\ CInit /\ XIdle /\ QInit
SpecChunker == InitChunker /\ [][CNext]_vars

\* one call of parse_document on a file
InitParser == PInit /\ exists = TRUE /\ AIdle /\ RIdle /\ TIdle /\ CIdle /\ XInit /\ QInit
SpecParser == InitParser /\ [][XNext]_vars

\* one task queue, its callers and the coroutines it creates
InitQueue == PInit /\ exists = TRUE /\ AIdle /\ RIdle /\ TIdle /\ CIdle /\ XIdle /\ QInit
SpecQueue == InitQueue /\ [][QNext]_vars

TypeOK ==
    /\ status \in ProcessingStatus /\ dstatus \in ProcessingStatus
    /\ nchunks \in 0..ChunkIdBound /\ i \in 0..ChunkIdBound
    /\ semValue \in 0..MaxConcurrentRequests

\* ================================================================ claims
Terminal == {COMPLETED, FAILED}

AllowedChange(a, b) ==
    \/ a = b
    \/ b = FAILED
    \/ <<a, b>> \in {<<PENDING, PARSING>>, <<PARSING, CHUNKING>>,
                     <<CHUNKING, EMBEDDING>>, <<EMBEDDING, COMPLETED>>}

\* C1: in a pipeline run every change of processing_status, of the session's
\* Document and of the committed row alike, is PENDING->PARSING,
\* PARSING->CHUNKING, CHUNKING->EMBEDDING, EMBEDDING->COMPLETED or a change to
\* FAILED.
C1_StagesInOrder ==
    [][mode' = "pipeline" =>
          AllowedChange(status, status') /\ AllowedChange(dstatus, dstatus')]_vars

C1_Witness ==
    mode = "pipeline" /\ lastStep = "AfterEmbed" /\ status = COMPLETED /\ dstatus = COMPLETED

\* C2 as claimed: once the committed status is COMPLETED or FAILED, no step of
\* the coordinator or of the orchestrator changes it.
C2_TerminalForever == [][(dstatus \in Terminal) => (dstatus' = dstatus)]_vars

\* C2 as amended: the only step that changes a committed COMPLETED or FAILED is
\* the first status update of a later embed_document_chunks call, which sets
\* EMBEDDING; no step of the pipeline run that reached COMPLETED or FAILED does.
C2_TerminalWithinRun ==
    [][(dstatus \in Terminal /\ dstatus' # dstatus) =>
          (lastStep' = "EmbedInit" /\ mode' = "direct" /\ dstatus' = EMBEDDING)]_vars

C2_Witness ==
    mode = "pipeline" /\ lastStep = "Handler" /\ raised = "EmbeddingServiceError"
    /\ dstatus = FAILED

\* C3: when parse_document fails the coordinator sets FAILED, the parser's
\* message and processing_completed_at and stops: in that run the status is
\* never CHUNKING or EMBEDDING, and the document never gets a chunk or an
\* embedding row.
C3_ParseFailureHalts ==
    /\ lastStep = "ParseFail" =>
          /\ status = FAILED /\ error = ParserMsg /\ completed
          /\ pc \in {"done", "handler"}
          /\ pc = "done" => (dstatus = FAILED /\ derror = ParserMsg /\ dcompleted)
    /\ (parseFailed /\ mode = "pipeline") =>
          /\ status = FAILED /\ completed /\ calls = 0
          /\ dstatus \notin {CHUNKING, EMBEDDING, COMPLETED}
          /\ pc \in {"done", "handler"}
    /\ parseFailed =>
          /\ nchunks = 0
          /\ \A c \in ChunkIds : rows[c] = 0 /\ drows[c] = 0

C3_Witness == lastStep = "ParseFail" /\ pc = "done" /\ dstatus = FAILED

\* C4: when the adapter call failed for exactly one batch and nothing else went
\* wrong in the call, then at return every chunk of every other batch has a
\* committed embedding written by the call and failed_chunk_ids holds exactly
\* the chunk ids of the failing batch.
C4_OneBatchFails ==
    (raised = "returned" /\ Cardinality(adapterFailed) = 1 /\ ~otherFault) =>
        \A k \in adapterFailed :
            /\ Range(summary.failed_chunk_ids) = BatchIds(k, bs, nchunks)
            /\ Len(summary.failed_chunk_ids) = Cardinality(BatchIds(k, bs, nchunks))
            /\ \A c \in (1..nchunks) \ BatchIds(k, bs, nchunks) :
                  drows[c] = 1 /\ c \in dwrote

C4_Witness ==
    raised = "returned" /\ adapterFailed = {1} /\ ~otherFault /\ nchunks = 3 /\ bs = 1

\* C5: a chunk never has more than one embedding row, in the session or
\* committed; a chunk a call embedded has exactly one; and a row that exists is
\* kept and written in place by a later call, never inserted again.
C5_OneRowPerChunk ==
    /\ [](\A c \in ChunkIds :
             /\ rows[c] <= 1 /\ drows[c] <= 1
             /\ c \in dwrote => drows[c] = 1)
    /\ [](lastStep = "BatchOk" =>
             \A c \in BatchIds(i - 1, bs, nchunks) : drows[c] = 1 /\ c \in dwrote)
    /\ [][\A c \in ChunkIds :
             drows[c] = 1 => (drows'[c] = 1 /\ (c \in dinserted' => c \in dinserted))]_vars

C5_Witness ==
    /\ calls = 2 /\ lastStep = "BatchOk"
    /\ \E c \in ChunkIds : c \in dwrote /\ c \notin dinserted /\ drows[c] = 1

\* C6: the final status update sets COMPLETED whatever the number of failed
\* chunks; it writes the note with the failed count exactly when a chunk failed
\* (and leaves processing_error alone otherwise); the summary's success flag is
\* true exactly when failed_chunk_ids is empty.
C6_CompletedWhateverFailed ==
    /\ [](lastStep = "FinalStatus" =>
             /\ status = COMPLETED
             /\ raised = "returned" =>
                   /\ dstatus = COMPLETED
                   /\ summary.failed_chunk_ids = failed
                   /\ summary.failed_chunks = Len(failed)
                   /\ summary.success = (summary.failed_chunk_ids = << >>))
    /\ [][lastStep' = "FinalStatus" =>
             error' = IF failed = << >> THEN error ELSE FailedNote(Len(failed))]_vars

C6_Witness ==
    /\ lastStep = "FinalStatus" /\ raised = "returned" /\ dstatus = COMPLETED
    /\ nchunks = 3 /\ Len(failed) = 3 /\ ~summary.success

\* C7: when embed_document_chunks ends by raising, the exception is an
\* EmbeddingServiceError and the document is marked FAILED.
C7_EscapeMarksFailed ==
    (lastStep \in {"EmbedInit", "EmbedHandler"} /\ raised \notin {"none", "returned"}) =>
        (raised = "EmbeddingServiceError" /\ status = FAILED /\ dstatus = FAILED)

\* min(2^k, 60)
ClaimedWait(k) == IF Pow2(k) < 60 THEN Pow2(k) ELSE 60

\* C8: a rate-limit error at batch position k records the batch's chunk ids as
\* failed, sleeps min(2^k, 60) seconds and goes on with batch k+1; the batches
\* are handed to the adapter in order 0, 1, 2, ..., each once.
C8_RateLimitBackoff ==
    /\ lastStep = "BatchRateLimit" =>
          /\ pc = "e_loop"
          /\ BatchIds(i - 1, bs, nchunks) \subseteq Range(failed)
          /\ slept # << >>
          /\ slept[Len(slept)] = <<i - 1, ClaimedWait(i - 1)>>
    /\ \A n \in 1..Len(slept) : slept[n][2] = ClaimedWait(slept[n][1]) /\ slept[n][2] <= 60
    /\ \A n \in 1..Len(submitted) : submitted[n] = n - 1
    /\ Len(submitted) = i

C8_Witness ==
    lastStep = "BatchRateLimit" /\ i = 7 /\ slept[Len(slept)] = <<6, 60>>

\* C9: get_embeddings_batch returns one result per text, the j-th being the
\* embedding of the j-th text, whatever the batch size and the order in which
\* the tasks complete.
C9_OrderPreserved ==
    out.state = "returned" =>
        /\ Len(out.results) = Len(texts)
        /\ \A j \in 1..Len(texts) :
              /\ out.results[j].embedding = Embedding(texts[j])
              /\ out.results[j].index = j - 1

C9_Witness ==
    /\ out.state = "returned" /\ outOfOrder
    /\ Len(texts) = 3 /\ NumTasks(texts, batchArg) >= 2

\* C10 as claimed: the requests in flight in the whole process never exceed
\* max_concurrent_requests.
C10_ProcessWideBound == TotalInFlight <= MaxConcurrentRequests

\* C10 as amended: the requests in flight through one OpenAIClient never exceed
\* its max_concurrent_requests: those of the embedding service's client, which
\* the pipelines and the query embeddings share, and those of each quiz
\* client; the free slots of a gate are its bound less its requests in flight.
C10_PerClientBound ==
    /\ SharedInFlight <= MaxConcurrentRequests
    /\ semValue = MaxConcurrentRequests - SharedInFlight
    /\ \A q \in QuizCallers :
          /\ QuizInFlight(q) <= MaxConcurrentRequests
          /\ quizSem[q] = MaxConcurrentRequests - QuizInFlight(q)

C10_Witness ==
    /\ SharedInFlight = MaxConcurrentRequests
    /\ \E t \in Tasks : task[t] = "created"

\* stop_after_attempt(3) of the retry wrapper
RetryAttempts == 3

\* C11: an embedding call of the adapter that ends with a transient network
\* failure has issued the request 3 times, and one that ends with a
\* non-transient provider error has issued it exactly once.
C11_TransientRetried ==
    /\ \A t \in Tasks :
          /\ (task[t] = "failed" /\ failure[t] = "transient") => requests[t] = RetryAttempts
          /\ (task[t] = "failed" /\ failure[t] # "transient") => requests[t] = 1
    /\ \A q \in QuizCallers :
          /\ (quiz[q] = "failed" /\ qfailure[q] = "transient") => qrequests[q] = RetryAttempts
          /\ (quiz[q] = "failed" /\ qfailure[q] # "transient") => qrequests[q] = 1

\* C12: top_chunks on a document that is not COMPLETED ends with the not-ready
\* error, and on a COMPLETED document with a query that is empty after
\* trimming with the empty-query error; in both cases it has called neither the
\* embedding provider nor the similarity search.
C12_PreconditionsFailEarly ==
    /\ (rpc = "done" /\ rstatus # COMPLETED) => outcome = "NotReady"
    /\ (rpc = "done" /\ rstatus = COMPLETED /\ Strip(query) = << >>) => outcome = "EmptyQuery"
    /\ (rstatus # COMPLETED \/ Strip(query) = << >>) => (providerCalls = 0 /\ searches = 0)
    /\ outcome \in {"NotReady", "EmptyQuery"} => (providerCalls = 0 /\ searches = 0)

C12_Witness == rpc = "done" /\ rstatus = EMBEDDING /\ outcome = "NotReady"

\* the positions of raw_results whose chunk has text left after trimming
Candidates == {k \in 1..Len(raw) : Strip(store[raw[k][1]].text) # << >>}

\* C13: top_chunks never returns an empty list; when the search brings no
\* candidate with non-empty text the call ends with the no-relevant-context
\* error.
C13_NeverEmptySuccess ==
    /\ outcome = "returned" => chunks # << >>
    /\ (rpc = "done" /\ searches = 1 /\ Candidates = {}) =>
          (outcome = "NoRelevantContext" /\ chunks = << >>)

C13_Witness ==
    rpc = "done" /\ outcome = "NoRelevantContext" /\ Len(raw) = 3 /\ Len(store) = 4

\* every returned chunk is a chunk of the target document with an embedding
\* and with non-empty trimmed text
ChunksQualify ==
    \A n \in 1..Len(chunks) :
        LET row == store[chunks[n].chunk_id]
        IN  /\ row.doc = "target" /\ row.embedded
            /\ chunks[n].text = Strip(row.text) /\ chunks[n].text # << >>

\* C14 as claimed: the returned chunks qualify and are at most limit.
C14_AtMostLimit ==
    outcome = "returned" => (ChunksQualify /\ Len(chunks) <= limit)

\* C14 as amended: the returned chunks qualify, are distinct and are at most
\* max(1, limit).
C14_AtMostEffectiveLimit ==
    outcome = "returned" =>
        /\ ChunksQualify
        /\ Len(chunks) <= (IF limit > 1 THEN limit ELSE 1)
        /\ \A m, n \in 1..Len(chunks) : chunks[m].chunk_id = chunks[n].chunk_id => m = n

C14_Witness ==
    /\ outcome = "returned" /\ limit = 0 /\ Len(chunks) = 1
    /\ \E c \in 1..Len(store) : store[c].doc = "other"
    /\ \E c \in 1..Len(store) : ~store[c].embedded

\* C15: the score of every returned chunk is max(0, 1 - distance), so it lies
\* in [0, 1] and is 0 for a distance above 1; the scores do not increase along
\* the list.
C15_ScoresClampedAndOrdered ==
    outcome = "returned" =>
        /\ \A n \in 1..Len(chunks) :
              LET d == store[chunks[n].chunk_id].distance
              IN  /\ chunks[n].score = (IF One - d > 0 THEN One - d ELSE 0)
                  /\ chunks[n].score >= 0 /\ chunks[n].score <= One
                  /\ d > One => chunks[n].score = 0
        /\ \A n \in 1..(Len(chunks) - 1) : chunks[n].score >= chunks[n + 1].score

C15_Witness ==
    /\ outcome = "returned" /\ Len(chunks) = 2
    /\ chunks[1].score > 0 /\ store[chunks[2].chunk_id].distance > One

\* C16: an exception of any stage of process_document_background (one still
\* inside embed_document_chunks' own handler apart) goes to its handler and
\* never out of the coroutine; the handler either commits FAILED
\* with the exception's message and processing_completed_at, or, when that
\* update fails, leaves the committed document as it was; either way the
\* coroutine ends normally.
C16_ExceptionsSwallowed ==
    /\ [](pc # "crashed")
    /\ []((mode = "pipeline" /\ (exc # NoExc \/ raised \notin {"none", "returned"})) =>
             \/ pc = "e_handler"
             \/ pc = "handler"
             \/ pc = "done" /\ lastStep = "Handler")
    /\ [][pc = "handler" =>
             /\ pc' = "done"
             /\ \/ dstatus' = FAILED /\ derror' = StrOf(exc) /\ dcompleted'
                \/ UNCHANGED <<dstatus, derror, dcompleted, drows>>]_vars

C16_Witness ==
    /\ pc = "done" /\ lastStep = "Handler" /\ exc = ChunkerError
    /\ status = FAILED /\ dstatus = CHUNKING

\* the chunk ids of the batches of document d whose adapter call failed
FaultIds(d) == UNION {BatchIds(k, 1, MaxDocChunks) : k \in tfaults[d]}

\* C17: a step in which a batch of one document fails changes nothing of the
\* other document (its status, its rows, its position, its failed list, its
\* summary) and none of the committed rows of the same document; and when a
\* document's call returns, it is COMPLETED, its summary names exactly the
\* chunks of its own failed batches, and every chunk of its other batches has
\* its committed embedding, whatever happened to the other document.
C17_FailuresStayLocal ==
    /\ [][\A d \in Docs :
             tfaults'[d] # tfaults[d] =>
                /\ \A e \in Docs \ {d} :
                      /\ tstatus'[e] = tstatus[e] /\ tsummary'[e] = tsummary[e]
                      /\ tfailed'[e] = tfailed[e] /\ tfaults'[e] = tfaults[e]
                      /\ tpc'[e] = tpc[e] /\ ti'[e] = ti[e]
                      /\ tstaged'[e] = tstaged[e] /\ tslept'[e] = tslept[e]
                /\ tembedded' = tembedded
                /\ tstatus'[d] = tstatus[d]]_vars
    /\ [](\A d \in Docs :
             tpc[d] = "done" =>
                /\ tstatus[d] = COMPLETED
                /\ Range(tsummary[d].failed_chunk_ids) = FaultIds(d)
                /\ Len(tsummary[d].failed_chunk_ids) = Cardinality(FaultIds(d))
                /\ RowsOf(d, tembedded) = {<<d, c>> : c \in DocChunks \ FaultIds(d)})

C17_Witness ==
    /\ tpc[1] = "sleeping" /\ tfaults[1] = {0}
    /\ tpc[2] = "committing" /\ ti[2] = 1 /\ tfaults[2] = {}

\* C18: whichever strategy produced them, the chunks a call returns carry the
\* indices 0, 1, ..., N-1 in list order, and every chunk ends after it starts.
C18_IndicesAndSpans ==
    (cpc = "ended" /\ cresult.outcome = "returned") =>
        \A k \in 1..Len(cresult.chunks) :
            /\ cresult.chunks[k].index = k - 1
            /\ cresult.chunks[k].end_char > cresult.chunks[k].start_char

\* the paragraph strategy, built with an overlap, has returned three chunks or more
C18_Witness ==
    /\ cpc = "ended" /\ centry = "strategy" /\ cstrategy = "paragraph"
    /\ coverlap.value > 0 /\ Len(cresult.chunks) >= 3

\* C19: after a fixed_size run, with word-boundary snapping or without, every
\* character position of the normalized text lies in [start_char, end_char) of
\* at least one returned chunk.
C19_EveryPositionCovered ==
    (cpc = "ended" /\ cstrategy = "fixed_size" /\ cresult.outcome = "returned") =>
        \A p \in 0..(Len(CleanText(ctext)) - 1) :
            \E k \in 1..Len(cresult.chunks) :
                /\ cresult.chunks[k].start_char <= p
                /\ p < cresult.chunks[k].end_char

\* C20: a TextChunker.chunk_text call with a recognized strategy, a chunk_size
\* in 100..4000 and 0 <= chunk_overlap < chunk_size (0 included) returns a
\* chunk sequence and does not raise; for the empty string the sequence is empty.
C20_ValidConfigurationNeverRaises ==
    ( /\ cpc = "ended" /\ centry = "chunker" /\ cstrategy \in Strategies
      /\ csize.given /\ csize.value \in 100..4000
      /\ coverlap.given /\ 0 <= coverlap.value /\ coverlap.value < csize.value ) =>
        /\ cresult.outcome = "returned"
        /\ ctext = << >> => cresult.chunks = << >>

\* the text the offsets of a strategy's chunks refer to: the cleaned text for
\* fixed_size and sentence (and for paragraph when it falls back to sentence),
\* the stripped paragraphs joined by blank lines for paragraph
NormalizedText(strategy, text) ==
    LET paragraphs == StripAll(ParagraphSplit(text, 1, << >>, << >>))
    IN  IF strategy = "paragraph" /\ paragraphs # << >>
        THEN Join(paragraphs, <<NL, NL>>)
        ELSE CleanText(text)

\* C21: for every chunk a strategy returns, the normalized text between
\* start_char and end_char, trimmed of surrounding whitespace, is the chunk's text.
C21_OffsetsLocateContent ==
    (cpc = "ended" /\ cstrategy \in Strategies /\ cresult.outcome = "returned") =>
        LET t == NormalizedText(cstrategy, ctext) IN
        \A k \in 1..Len(cresult.chunks) :
            LET c == cresult.chunks[k] IN
            /\ 0 <= c.start_char /\ c.end_char <= Len(t)
            /\ Strip(SubSeq(t, c.start_char + 1, c.end_char)) = c.text

\* a chunk sequence without the strategy tag of the metadata
Content(cs) ==
    [k \in 1..Len(cs) |-> [text |-> cs[k].text, index |-> cs[k].index,
                           start_char |-> cs[k].start_char, end_char |-> cs[k].end_char]]

\* C22: on a non-empty text without a sentence boundary (no sentence-ending
\* mark followed by whitespace and an upper-case letter) SentenceChunking
\* returns the chunks FixedSizeChunking returns for the same size and overlap.
C22_SentenceFallsBackToFixedSize ==
    ( /\ cpc = "ended" /\ centry = "strategy" /\ cstrategy = "sentence"
      /\ ctext # << >> /\ Len(PatternSplit(ctext, 1, << >>, << >>)) = 1 ) =>
        Content(cresult.chunks)
            = Content(FixedSizeChunk(ctext, csize.value, coverlap.value, TRUE))

\* C23: on a non-empty text without a paragraph boundary (no blank line)
\* ParagraphChunking returns the chunks SentenceChunking returns for the same
\* size and overlap.
C23_ParagraphFallsBackToSentence ==
    ( /\ cpc = "ended" /\ centry = "strategy" /\ cstrategy = "paragraph"
      /\ ctext # << >> /\ Len(ParagraphSplit(ctext, 1, << >>, << >>)) = 1 ) =>
        Content(cresult.chunks)
            = Content(SentenceChunk(ctext, csize.value, coverlap.value))

\* the number of characters of a text that are not whitespace
RECURSIVE NonWhitespace(_)
NonWhitespace(t) ==
    IF t = << >> THEN 0
    ELSE (IF IsSpace(Head(t)) THEN 0 ELSE 1) + NonWhitespace(Tail(t))

\* C24: parse_document returns a text only if the text has at least 10
\* characters that are not whitespace; with fewer the call fails with
\* DocumentParsingError and returns nothing.
C24_TenNonWhitespaceCharacters ==
    (xpc = "ended" /\ xresult.outcome = "returned") =>
        NonWhitespace(xresult.text) >= 10

\* the page's extraction threw, or returned nothing but whitespace
Unextractable(page) == page.throws \/ Strip(page.text) = << >>

\* C25: parsing a PDF, a page whose extraction throws does not end the call
\* with that page's error (the pages after it are still read), and a PDF none
\* of whose pages yields text makes the call fail with DocumentParsingError.
C25_NoExtractablePageFails ==
    (xpc = "ended" /\ xfile.kind = "pdf") =>
        /\ (\A n \in 1..Len(xfile.pages) : Unextractable(xfile.pages[n]))
               => xresult.outcome = "DocumentParsingError"
        /\ (\E n \in 1..Len(xfile.pages) :
                Len(Strip(xfile.pages[n].text)) >= MinTextLength)
               => xresult.outcome = "returned"

\* C26 as claimed: a pipeline run on an existing document in which no status
\* commit raised has not ended with the document in a status other than
\* COMPLETED or FAILED.
C26_RunEndsTerminal ==
    (mode = "pipeline" /\ exists /\ pc = "done" /\ faults \cap {"commit", "handler"} = {})
        => dstatus \in Terminal

\* C26 as amended: a pipeline run whose calls all return ends, and it ends with the
\* document COMPLETED or FAILED unless the write of the coordinator's handler
\* did not land (it could not load the document, or its commit raised); a run
\* that ends otherwise has been through that handler and has left the committed
\* status where the failing step found it.
C26_RunEndsTerminalUnlessHandlerFails ==
    /\ <>(pc = "done")
    /\ []((mode = "pipeline" /\ exists /\ pc = "done") =>
            /\ faults \cap {"get", "handler"} = {} => dstatus \in Terminal
            /\ dstatus \notin Terminal =>
                  /\ lastStep = "Handler" /\ exc # NoExc
                  /\ dstatus \in {PENDING, PARSING, CHUNKING, EMBEDDING})

\* a chunking error that the handler recorded: the run ends FAILED
C26_Witness ==
    /\ mode = "pipeline" /\ exists /\ pc = "done" /\ lastStep = "Handler"
    /\ exc = ChunkerError /\ faults = {} /\ dstatus = FAILED

\* C27: in every summary returned by embed_document_chunks each input chunk is
\* counted once: processed_chunks plus the number of failed_chunk_ids is
\* total_chunks.
C27_EachChunkCountedOnce ==
    (raised = "returned" /\ lastStep = "FinalStatus") =>
        summary.processed_chunks + Len(summary.failed_chunk_ids) = summary.total_chunks

\* C28: after embed_document_chunks has returned, no chunk whose id is in
\* failed_chunk_ids has an embedding written by that call in the database.
C28_FailedChunksNotWritten ==
    (raised = "returned" /\ lastStep = "FinalStatus") =>
        \A k \in 1..Len(summary.failed_chunk_ids) : summary.failed_chunk_ids[k] \notin dwrote

\* C29: every document whose committed status is COMPLETED or FAILED has
\* processing_completed_at set, and a document the orchestrator has marked
\* EMBEDDING has processing_started_at set.
C29_TerminalHasCompletedAt ==
    /\ (exists /\ dstatus \in {COMPLETED, FAILED}) => dcompleted
    /\ (lastStep = "EmbedInit" /\ status = EMBEDDING) => started

\* C30: cancel_task returns True exactly when the task exists with status
\* PENDING or RUNNING, and a task it has cancelled has status CANCELLED from then
\* on, whatever step its _run_task coroutine takes afterwards.
C30_CancelIsFinal ==
    /\ lastCall.op = "cancel_task" =>
          (lastCall.result = "True" <=> lastCall.before \in {PENDING, RUNNING})
    /\ \A t \in cancelled : tasks[t] = CANCELLED

====
